---- MODULE Spec2Model ----
(***************************************************************************)
(* A model of the dataset adaptation layer of tlc_ultralytics:             *)
(* TLCDatasetMixin (engine/dataset.py) and TLCClassificationDataset        *)
(* (classify/dataset.py).  A dataset is built from a table; the rows to    *)
(* use are read from a JSON cache file next to the table or, without a     *)
(* usable cache, found by verifying every image in a thread pool.          *)
(*                                                                         *)
(* Strings are sequences of character codes (naturals), lists are          *)
(* sequences (1-based here, 0-based in the source: ToPy converts).         *)
(***************************************************************************)
EXTENDS Integers, Sequences, FiniteSets, TLC

\* ------------------------------------------------------------------ bounds
\* Largest number of table rows.
MaxRows == 3
\* Largest number of range entries in a cache file found on disk.
MaxRanges == 2
\* Largest start/end value in a cache file found on disk.
MaxCachedId == 1
\* Size of the worker pool (ultralytics.utils.NUM_THREADS on the machine).
NUM_THREADS == 2
\* Longest list handed to the range encoder, and its largest element.
MaxIds == 4
MaxIdValue == 3
\* Longest list of image paths handed to the cache key function.
MaxPaths == 3
\* Largest number of training epochs (args.epochs).
MaxEpochs == 2

\* ------------------------------------------------------------- sequences
Range(s) == {s[i] : i \in DOMAIN s}

SeqsUpTo(S, n) == UNION {[1..k -> S] : k \in 0..n}

\* list[i] of the source, whose lists are 0-based
At(list, i) == list[i + 1]

\* list(range(start, stop))
PyRange(start, stop) ==
    IF stop <= start THEN <<>> ELSE [p \in 1..(stop - start) |-> start + p - 1]

RECURSIVE Concat(_)
\* "".join(list)
Concat(ss) == IF ss = <<>> THEN <<>> ELSE Head(ss) \o Concat(Tail(ss))

RECURSIVE StrLess(_, _)
\* str.__lt__: lexicographic order by code point
StrLess(a, b) ==
    IF b = <<>> THEN FALSE
    ELSE IF a = <<>> THEN TRUE
    ELSE IF Head(a) # Head(b) THEN Head(a) < Head(b)
    ELSE StrLess(Tail(a), Tail(b))

RECURSIVE Insert(_, _)
Insert(x, s) ==
    IF s = <<>> THEN <<x>>
    ELSE IF StrLess(x, Head(s)) THEN <<x>> \o s
    ELSE <<Head(s)>> \o Insert(x, Tail(s))

RECURSIVE sorted(_)
\* sorted(list of str)
sorted(s) == IF s = <<>> THEN <<>> ELSE Insert(Head(s), sorted(Tail(s)))

\* ------------------------------------------------------------ characters
\* "/" and the tokens of f"exclude_zero={exclude_zero}"
Slash == <<0>>
ExcludeZeroText(exclude_zero) == IF exclude_zero THEN <<90, 91>> ELSE <<90, 92>>

\* the url of the table, and the root a registered alias expands to
TableUrl == <<0, 7>>
AliasRoot == <<0, 8>>

\* ---------------------------------------------------------- image strings
\* The image column holds strings of five forms: an absolute local path, a
\* path relative to the table, a path under a registered alias, a path under
\* an alias that is not registered, and a url that is not a local file.
ImageForms == {"abs", "rel", "alias", "badalias", "remote"}

ImageStr(form, name) == [form |-> form, name |-> name]

\* the scheme test of line 47 left out: a remote url is made absolute
AbsolutizeAnyScheme(image_str, table_url) ==
    IF image_str.form = "badalias" THEN [exc |-> "ValueError", path |-> <<>>]
    ELSE IF image_str.form = "alias"
    THEN [exc |-> "", path |-> AliasRoot \o Slash \o image_str.name]
    ELSE IF image_str.form = "rel"
    THEN [exc |-> "", path |-> table_url \o Slash \o image_str.name]
    ELSE [exc |-> "", path |-> Slash \o image_str.name]

\* TLCDatasetMixin._absolutize_image_url: [exc, path]
_absolutize_image_url(image_str, table_url) ==
    IF image_str.form = "badalias" THEN [exc |-> "ValueError", path |-> <<>>]
    ELSE IF image_str.form = "remote" THEN [exc |-> "ValueError", path |-> <<>>]
    ELSE IF image_str.form = "alias"
    THEN [exc |-> "", path |-> AliasRoot \o Slash \o image_str.name]
    ELSE IF image_str.form = "rel"
    THEN [exc |-> "", path |-> table_url \o Slash \o image_str.name]
    ELSE [exc |-> "", path |-> Slash \o image_str.name]

\* ---------------------------------------------------------------- cache key
RECURSIVE HashFrom(_, _)
HashFrom(h, s) ==
    IF s = <<>> THEN h ELSE HashFrom((h * 31 + Head(s) + 1) % 65521, Tail(s))

\* hashlib.md5(s.encode()).hexdigest(), as a small polynomial hash: a
\* function of the whole string, with collisions
Md5(s) == HashFrom(7, s)

\* the paths joined as they come, not sorted
CacheKeyNoSort(image_paths, exclude_zero) ==
    Concat(image_paths) \o ExcludeZeroText(exclude_zero)

\* the string _get_cache_key hashes
CacheKeyString(image_paths, exclude_zero) ==
    Concat(sorted(image_paths)) \o ExcludeZeroText(exclude_zero)

\* TLCDatasetMixin._get_cache_key
_get_cache_key(image_paths, exclude_zero) ==
    Md5(CacheKeyString(image_paths, exclude_zero))

\* TLCDatasetMixin._get_cache_path: table_url / f"yolo_{cache_key}.json"
_get_cache_path(table_url, cache_key) == [dir |-> table_url, yolo |-> cache_key]

\* ------------------------------------------------------------ range coding
\* One element of the "ranges" list of a cache file: a JSON object that may
\* lack "start" or "end", or (obj = FALSE) a JSON value that is no object.
RangeDict(start, end) ==
    [obj |-> TRUE, hasStart |-> TRUE, start |-> start, hasEnd |-> TRUE, end |-> end]

RECURSIVE EncodeLoopNoLast(_, _, _, _, _)
\* the last range forgotten (line 111)
EncodeLoopNoLast(example_ids, p, start, end, ranges) ==
    IF p > Len(example_ids) THEN ranges
    ELSE IF example_ids[p] = end + 1
    THEN EncodeLoopNoLast(example_ids, p + 1, start, example_ids[p], ranges)
    ELSE EncodeLoopNoLast(example_ids, p + 1, example_ids[p], example_ids[p],
                          Append(ranges, RangeDict(start, end)))

RECURSIVE EncodeLoopOffByOne(_, _, _, _, _)
\* the test of line 103 against end instead of end + 1
EncodeLoopOffByOne(example_ids, p, start, end, ranges) ==
    IF p > Len(example_ids) THEN Append(ranges, RangeDict(start, end))
    ELSE IF example_ids[p] = end
    THEN EncodeLoopOffByOne(example_ids, p + 1, start, example_ids[p], ranges)
    ELSE EncodeLoopOffByOne(example_ids, p + 1, example_ids[p], example_ids[p],
                            Append(ranges, RangeDict(start, end)))

RECURSIVE EncodeLoop(_, _, _, _, _)
\* the for loop of _encode_example_ids, i = p - 1
EncodeLoop(example_ids, p, start, end, ranges) ==
    IF p > Len(example_ids) THEN Append(ranges, RangeDict(start, end))
    ELSE IF example_ids[p] = end + 1
    THEN EncodeLoop(example_ids, p + 1, start, example_ids[p], ranges)
    ELSE EncodeLoop(example_ids, p + 1, example_ids[p], example_ids[p],
                    Append(ranges, RangeDict(start, end)))

\* TLCDatasetMixin._encode_example_ids
_encode_example_ids(example_ids) ==
    IF example_ids = <<>> THEN <<>>
    ELSE EncodeLoop(example_ids, 2, example_ids[1], example_ids[1], <<>>)

RECURSIVE DecodeLoop(_, _)
\* the for loop of _decode_example_ids: [exc, ids]
DecodeLoop(ranges, example_ids) ==
    IF ranges = <<>> THEN [exc |-> "", ids |-> example_ids]
    ELSE LET range_dict == Head(ranges) IN
         IF ~range_dict.obj THEN [exc |-> "TypeError", ids |-> <<>>]
         ELSE IF ~range_dict.hasStart \/ ~range_dict.hasEnd
         THEN [exc |-> "KeyError", ids |-> <<>>]
         ELSE DecodeLoop(Tail(ranges),
                         example_ids \o PyRange(range_dict.start, range_dict.end + 1))

RECURSIVE DecodeLoopShort(_, _)
\* range(start, end) for range(start, end + 1)
DecodeLoopShort(ranges, example_ids) ==
    IF ranges = <<>> THEN [exc |-> "", ids |-> example_ids]
    ELSE LET range_dict == Head(ranges) IN
         IF ~range_dict.obj THEN [exc |-> "TypeError", ids |-> <<>>]
         ELSE IF ~range_dict.hasStart \/ ~range_dict.hasEnd
         THEN [exc |-> "KeyError", ids |-> <<>>]
         ELSE DecodeLoopShort(Tail(ranges),
                         example_ids \o PyRange(range_dict.start, range_dict.end))

DecodeShort(ranges) == DecodeLoopShort(ranges, <<>>)

\* TLCDatasetMixin._decode_example_ids
_decode_example_ids(ranges) == DecodeLoop(ranges, <<>>)

\* -------------------------------------------------------------- cache file
\* What is at the cache path: nothing, text that is not JSON, a JSON value
\* that is not an object, or a JSON object with or without "version" and
\* "ranges" ("ranges" a list, or a value that is no list).
NoFile == [kind |-> "absent", hasVersion |-> FALSE, version |-> 0,
           hasRanges |-> FALSE, rangesIsList |-> FALSE, ranges |-> <<>>]

CacheObject(hasVersion, version, hasRanges, rangesIsList, ranges) ==
    [kind |-> "object", hasVersion |-> hasVersion, version |-> version,
     hasRanges |-> hasRanges, rangesIsList |-> rangesIsList, ranges |-> ranges]

\* the version test of line 138 inverted
LoadVersionInverted(file) ==
    IF file.kind = "text" THEN [exc |-> "", none |-> TRUE, ids |-> <<>>]
    ELSE IF file.kind # "object"
    THEN [exc |-> "AttributeError", none |-> FALSE, ids |-> <<>>]
    ELSE IF file.hasVersion /\ file.version = 1
    THEN [exc |-> "", none |-> TRUE, ids |-> <<>>]
    ELSE IF ~file.hasRanges THEN [exc |-> "", none |-> TRUE, ids |-> <<>>]
    ELSE IF ~file.rangesIsList
    THEN [exc |-> "TypeError", none |-> FALSE, ids |-> <<>>]
    ELSE LET decoded == _decode_example_ids(file.ranges) IN
         IF decoded.exc = "KeyError" THEN [exc |-> "", none |-> TRUE, ids |-> <<>>]
         ELSE IF decoded.exc # ""
         THEN [exc |-> decoded.exc, none |-> FALSE, ids |-> <<>>]
         ELSE [exc |-> "", none |-> FALSE, ids |-> decoded.ids]

\* a missing "ranges" read as the empty list (line 142)
LoadRangesDefault(file) ==
    IF file.kind = "text" THEN [exc |-> "", none |-> TRUE, ids |-> <<>>]
    ELSE IF file.kind # "object"
    THEN [exc |-> "AttributeError", none |-> FALSE, ids |-> <<>>]
    ELSE IF ~file.hasVersion \/ file.version # 1
    THEN [exc |-> "", none |-> TRUE, ids |-> <<>>]
    ELSE IF ~file.hasRanges THEN [exc |-> "", none |-> FALSE, ids |-> <<>>]
    ELSE IF ~file.rangesIsList
    THEN [exc |-> "TypeError", none |-> FALSE, ids |-> <<>>]
    ELSE LET decoded == _decode_example_ids(file.ranges) IN
         IF decoded.exc = "KeyError" THEN [exc |-> "", none |-> TRUE, ids |-> <<>>]
         ELSE IF decoded.exc # ""
         THEN [exc |-> decoded.exc, none |-> FALSE, ids |-> <<>>]
         ELSE [exc |-> "", none |-> FALSE, ids |-> decoded.ids]

\* TLCDatasetMixin._load_cached_example_ids: [exc, none, ids]; exc is the
\* exception that leaves the method, none says that None is returned
_load_cached_example_ids(file) ==
    IF file.kind = "text" THEN [exc |-> "", none |-> TRUE, ids |-> <<>>]
    ELSE IF file.kind # "object"
    THEN [exc |-> "AttributeError", none |-> FALSE, ids |-> <<>>]
    ELSE IF ~file.hasVersion \/ file.version # 1
    THEN [exc |-> "", none |-> TRUE, ids |-> <<>>]
    ELSE IF ~file.hasRanges THEN [exc |-> "", none |-> TRUE, ids |-> <<>>]
    ELSE IF ~file.rangesIsList
    THEN [exc |-> "TypeError", none |-> FALSE, ids |-> <<>>]
    ELSE LET decoded == _decode_example_ids(file.ranges) IN
         IF decoded.exc = "KeyError" THEN [exc |-> "", none |-> TRUE, ids |-> <<>>]
         ELSE IF decoded.exc # ""
         THEN [exc |-> decoded.exc, none |-> FALSE, ids |-> <<>>]
         ELSE [exc |-> "", none |-> FALSE, ids |-> decoded.ids]

\* the file _save_cached_example_ids writes
_save_cached_example_ids(example_ids) ==
    CacheObject(TRUE, 1, TRUE, TRUE, _encode_example_ids(example_ids))

\* ------------------------------------------------------------------- state
VARIABLES
    \* the table, the dataset's settings, the images on disk, the file system
    table, exclude_zero, class_map, disk, fs,
    \* where the construction of the dataset is, and the exception that ended it
    pc, exc,
    \* locals of _get_rows_from_table
    image_paths, cache_path, example_ids, im_files, labels,
    \* the thread pool of _get_example_ids_from_table (the next image to hand
    \* out, the images being verified, the results not yet consumed and the
    \* order they came in) and the locals of its loop; pairs records which
    \* result was zipped with which row
    next_task, running, results, ready, consumed, pairs,
    verified_count, corrupt_count, excluded_count, msgs,
    \* TLCClassificationDataset._example_ids and the last sample of __getitem__
    _example_ids, sample,
    \* observers of one construction: verify_image calls per image, writes of
    \* the cache file, the file found at the cache path, whether it was used
    verify_calls, cache_writes, file_before, loaded,
    \* whether a dataset was built on the table before (0 or 1) and what that
    \* construction returned
    calls, previous,
    \* arguments and results of the functions applied on their own
    fn_arg, fn_mid, fn_out,
    \* the index of the last __getitem__ (-1 before the first)
    sample_index,
    \* the trainer: the rank of its process, its constructor argument, its
    \* fields, the best checkpoint on disk, the val validator and the lazily
    \* built train validator, the run
    RANK, overrides, _settings, epochs, epoch, best, validator,
    _train_validator, _metrics_collection_epochs, _run,
    \* where the trainer is, the exception that ended it, what it did so far
    \* and what the last validate() returned
    tpc, texc, events, returned,
    \* one process that imports the package: the script it runs, the names
    \* bound in the package so far, where the import is, how it ended
    script, namespace, ipc, import_result,
    \* the global random state of the trainer's process, as the number of
    \* draws made from the seed, and the one of the upstream trainer run on
    \* the same input
    random_state, upstream_random_state

vars == <<table, exclude_zero, class_map, disk, fs, pc, exc, image_paths,
          cache_path, example_ids, im_files, labels, next_task, running,
          results, ready, consumed, pairs, verified_count, corrupt_count,
          excluded_count, msgs, _example_ids, sample, verify_calls,
          cache_writes, file_before, loaded, calls, previous, fn_arg, fn_mid,
          fn_out, sample_index, RANK, overrides, _settings, epochs, epoch,
          best, validator, _train_validator, _metrics_collection_epochs, _run,
          tpc, texc, events, returned, script, namespace, ipc, import_result,
          random_state, upstream_random_state>>

tableVars == <<table, exclude_zero, class_map, disk>>
poolVars == <<next_task, running, results, ready>>
loopVars == <<consumed, pairs, example_ids, verified_count, corrupt_count,
              excluded_count, msgs>>
fnVars == <<fn_arg, fn_mid, fn_out>>
randomVars == <<random_state, upstream_random_state>>
trainerVars == <<RANK, overrides, _settings, epochs, epoch, best, validator,
                 _train_validator, _metrics_collection_epochs, _run, tpc,
                 texc, events, returned, randomVars>>
packageVars == <<script, namespace, ipc, import_result>>

NoSample == [img |-> <<>>, cls |-> 0, example_id |-> 0]
NoPrevious == [example_ids |-> <<>>, im_files |-> <<>>, labels |-> <<>>]

\* Settings() with its defaults: collection on, on both splits, no embeddings,
\* no collection during training (collection_epoch_start None, written 0)
DefaultSettings ==
    [collection_disable |-> FALSE, collection_val_only |-> FALSE,
     image_embeddings_dim |-> 0, collection_epoch_start |-> 0,
     collection_epoch_interval |-> 1]

\* a validator that was not built (None), no run, nothing returned; id tells
\* the validator objects of one trainer apart (0 for None)
NoValidator ==
    [built |-> FALSE, _final_validation |-> FALSE, _epoch |-> 0 - 1, id |-> 0]
NoRun == [created |-> FALSE, parameters |-> FALSE, status |-> ""]
NoMetrics == [split |-> "", epoch |-> 0 - 1]

\* no trainer in this process
NoTrainer ==
    /\ RANK = 0 - 1
    /\ overrides = [none |-> TRUE, given |-> {}, keys |-> {},
                    settings |-> DefaultSettings]
    /\ _settings = DefaultSettings
    /\ epochs = 0 /\ epoch = 0 /\ best = FALSE
    /\ validator = NoValidator /\ _train_validator = NoValidator
    /\ _metrics_collection_epochs = {}
    /\ _run = NoRun
    /\ tpc = "none" /\ texc = "" /\ events = <<>> /\ returned = NoMetrics
    /\ random_state = 0 /\ upstream_random_state = 0

\* no import of the package in this process
NoPackage ==
    /\ script = "" /\ namespace = {}
    /\ ipc = [at |-> "none", step |-> 0]
    /\ import_result = [exc |-> "", bound |-> {}]

\* ------------------------------------------------------------------- table
\* a row without a weight read as weight 0
RowWeightDefaultZero(row) == IF row.hasWeight THEN row.weight ELSE 0

\* row.get(weight_column_name, 1)
RowWeight(row) == IF row.hasWeight THEN row.weight ELSE 1

WeightKinds == {"zero", "one", "none"}

\* what verify_image finds: a good image, a corrupt JPEG it restores (found,
\* with a message), an image it cannot read (corrupt, with a message)
Outcomes == {"ok", "restored", "corrupt"}

\* ultralytics.data.utils.verify_image: (_, nf, nc, msg)
verify_image(outcome) ==
    IF outcome = "ok" THEN [verified |-> 1, corrupt |-> 0, msg |-> ""]
    ELSE IF outcome = "restored"
    THEN [verified |-> 1, corrupt |-> 0, msg |-> "restored"]
    ELSE [verified |-> 0, corrupt |-> 1, msg |-> "corrupt"]

\* a row: the image and label values with their Python types, the weight
TableRow(form, p, kind) ==
    [image |-> ImageStr(form, <<p>>), imageType |-> "str",
     label |-> p, labelType |-> "int",
     hasWeight |-> kind # "none", weight |-> IF kind = "one" THEN 1 ELSE 0]

GoodForm(p) == IF p % 2 = 1 THEN "rel" ELSE "abs"

\* the tables of n rows with readable image strings
Tables(n) ==
    {[p \in 1..n |-> TableRow(GoodForm(p), p, kinds[p])] : kinds \in [1..n -> WeightKinds]}

ClassMaps == {<<>>, [l \in 1..MaxRows |-> l + 10]}

\* ------------------------------------------------- _get_rows_from_table
AbsResults == [p \in 1..Len(table) |-> _absolutize_image_url(table[p].image, TableUrl)]
UrlError == \E p \in 1..Len(table) : AbsResults[p].exc # ""
ImagePaths == [p \in 1..Len(table) |-> AbsResults[p].path]
CachePath == _get_cache_path(TableUrl, _get_cache_key(ImagePaths, exclude_zero))
CacheExists == CachePath \in DOMAIN fs
FileThere == IF CacheExists THEN fs[CachePath] ELSE NoFile

\* line 180: the cached ids, None without a file
Loaded ==
    IF CacheExists THEN _load_cached_example_ids(fs[CachePath])
    ELSE [exc |-> "", none |-> TRUE, ids |-> <<>>]

\* isinstance(value, class) by the type of the value; bool is a subclass of int
IsInstance(type, class) == type = class \/ (type = "bool" /\ class = "int")

\* the assertion on the label of the first row (lines 71-73) left out
SchemaErrorNoLabel ==
    IF Len(table) = 0 THEN TRUE
    ELSE ~IsInstance(At(table, 0).imageType, "str")

\* TLCClassificationDataset.verify_schema: one of its assertions fails
SchemaError ==
    IF Len(table) = 0 THEN TRUE
    ELSE LET first_row == At(table, 0) IN
         \/ ~IsInstance(first_row.imageType, "str")
         \/ ~IsInstance(first_row.labelType, "int")

\* TLCClassificationDataset._get_label_from_row
_get_label_from_row(row) ==
    IF class_map # <<>> THEN class_map[row.label] ELSE row.label

\* the table row and the example id line 190 hands to _get_label_from_row for
\* position k of im_files
LabelRowIndex(k, ids) == k

\* lines 189-190: [exc, im_files, labels, ids], ids what _get_label_from_row
\* appends to _example_ids
BuildRows(paths, ids) ==
    IF \E k \in 0..(Len(ids) - 1) : At(ids, k) >= Len(paths)
    THEN [exc |-> "IndexError", im_files |-> <<>>, labels |-> <<>>, ids |-> <<>>]
    ELSE IF \E k \in 0..(Len(ids) - 1) : LabelRowIndex(k, ids) >= Len(table)
    THEN [exc |-> "IndexError", im_files |-> <<>>, labels |-> <<>>, ids |-> <<>>]
    ELSE [exc |-> "",
          im_files |-> [q \in 1..Len(ids) |-> At(paths, ids[q])],
          labels |-> [q \in 1..Len(ids) |->
                         _get_label_from_row(At(table, LabelRowIndex(q - 1, ids)))],
          ids |-> [q \in 1..Len(ids) |-> LabelRowIndex(q - 1, ids)]]

\* ----------------------------------------------------------------- actions
StartFails ==
    IF SchemaError \/ UrlError \/ Loaded.exc # "" THEN TRUE
    ELSE IF Loaded.none THEN FALSE
    ELSE BuildRows(ImagePaths, Loaded.ids).exc # ""

\* TLCClassificationDataset.__init__ up to the first exception: the schema
\* assertion, an image string that cannot be made absolute, a cache file that
\* makes the load raise, cached ids that do not index the table
StartRaise ==
    /\ pc = "new"
    /\ StartFails
    /\ pc' = "raised"
    /\ exc' = IF SchemaError THEN "AssertionError"
              ELSE IF UrlError THEN "ValueError"
              ELSE IF Loaded.exc # "" THEN Loaded.exc
              ELSE "IndexError"
    /\ file_before' = IF SchemaError \/ UrlError THEN NoFile ELSE FileThere
    /\ image_paths' = IF SchemaError \/ UrlError THEN <<>> ELSE ImagePaths
    /\ _example_ids' = <<>>
    /\ UNCHANGED <<tableVars, fs, cache_path, im_files, labels, poolVars,
                   loopVars, sample, sample_index, verify_calls, cache_writes, loaded, calls,
                   previous, fnVars, trainerVars, packageVars>>

\* __init__ with a cache hit: lines 173-183 and 189-192, no pool
StartHit ==
    /\ pc = "new"
    /\ ~SchemaError /\ ~UrlError
    /\ Loaded.exc = "" /\ ~Loaded.none
    /\ LET built == BuildRows(ImagePaths, Loaded.ids) IN
        /\ built.exc = ""
        /\ im_files' = built.im_files
        /\ labels' = built.labels
        /\ _example_ids' = built.ids
    /\ image_paths' = ImagePaths
    /\ cache_path' = CachePath
    /\ example_ids' = Loaded.ids
    /\ file_before' = FileThere
    /\ loaded' = TRUE
    /\ pc' = "done"
    /\ exc' = ""
    /\ UNCHANGED <<tableVars, fs, poolVars, consumed, pairs, verified_count,
                   corrupt_count, excluded_count, msgs, sample, sample_index, verify_calls,
                   cache_writes, calls, previous, fnVars, trainerVars, packageVars>>

\* __init__ without a usable cache: lines 173-186 and 200-212, the pool is
\* created and the images are queued
StartMiss ==
    /\ pc = "new"
    /\ ~SchemaError /\ ~UrlError
    /\ Loaded.exc = "" /\ Loaded.none
    /\ image_paths' = ImagePaths
    /\ cache_path' = CachePath
    /\ file_before' = FileThere
    /\ loaded' = FALSE
    /\ _example_ids' = <<>>
    /\ example_ids' = <<>>
    /\ verified_count' = 0 /\ corrupt_count' = 0 /\ excluded_count' = 0
    /\ msgs' = <<>>
    /\ consumed' = 0 /\ pairs' = <<>>
    /\ next_task' = 0 /\ running' = {} /\ results' = <<>> /\ ready' = <<>>
    /\ pc' = "scan"
    /\ exc' = ""
    /\ UNCHANGED <<tableVars, fs, im_files, labels, sample, sample_index, verify_calls,
                   cache_writes, calls, previous, fnVars, trainerVars, packageVars>>

\* a free worker of the pool takes the next image of image_iterator
WorkerTake ==
    /\ pc = "scan"
    /\ next_task < Len(image_paths)
    /\ Cardinality(running) < NUM_THREADS
    /\ running' = running \cup {next_task}
    /\ next_task' = next_task + 1
    /\ verify_calls' = [verify_calls EXCEPT ![next_task + 1] = @ + 1]
    /\ UNCHANGED <<tableVars, fs, pc, exc, image_paths, cache_path, im_files,
                   labels, results, ready, loopVars, _example_ids,
                   sample, sample_index, cache_writes, file_before, loaded, calls, previous,
                   fnVars, trainerVars, packageVars>>

\* an image that fails verification is verified a second time
WorkerFinishRetry(t) ==
    /\ pc = "scan"
    /\ t \in running
    /\ IF At(disk, t) = "corrupt" /\ verify_calls[t + 1] < 2
       THEN /\ verify_calls' = [verify_calls EXCEPT ![t + 1] = @ + 1]
            /\ UNCHANGED <<running, results, ready>>
       ELSE /\ running' = running \ {t}
            /\ results' = (t + 1 :> verify_image(At(disk, t))) @@ results
            /\ ready' = Append(ready, t)
            /\ UNCHANGED verify_calls
    /\ UNCHANGED <<tableVars, fs, pc, exc, image_paths, cache_path, im_files,
                   labels, next_task, loopVars, _example_ids, sample, sample_index,
                   cache_writes, file_before, loaded, calls, previous, fnVars, trainerVars, packageVars>>

\* a worker returns from verify_image(image_paths[t])
WorkerFinish(t) ==
    /\ pc = "scan"
    /\ t \in running
    /\ running' = running \ {t}
    /\ results' = (t + 1 :> verify_image(At(disk, t))) @@ results
    /\ ready' = Append(ready, t)
    /\ UNCHANGED <<tableVars, fs, pc, exc, image_paths, cache_path, im_files,
                   labels, next_task, loopVars, _example_ids, sample, sample_index,
                   verify_calls, cache_writes, file_before, loaded, calls,
                   previous, fnVars, trainerVars, packageVars>>

\* pool.imap_unordered: results in the order the workers finish
ImapUnorderedNext(order, k) == IF order # <<>> THEN Head(order) ELSE 0 - 1

\* pool.imap (line 210): the task whose result the iterator yields as its
\* k-th (from 0), -1 while that result is not there
ImapNext(order, k) == IF k \in Range(order) THEN k ELSE 0 - 1

\* the exclude_zero setting ignored
ExcludedAlways(row) == RowWeight(row) = 0

\* line 216: the row is skipped
Excluded(row) == exclude_zero /\ RowWeight(row) = 0

\* the else of line 218 lost: an excluded row is counted as a row as well
LoopBodyNoElse(example_id, row, r) ==
    [example_ids |-> IF r.verified = 1 THEN Append(example_ids, example_id)
                     ELSE example_ids,
     msgs |-> IF r.msg # "" THEN Append(msgs, r.msg) ELSE msgs,
     verified_count |-> verified_count + r.verified,
     corrupt_count |-> corrupt_count + r.corrupt,
     excluded_count |-> IF Excluded(row) THEN excluded_count + 1
                        ELSE excluded_count]

\* lines 216-225, one pass of the loop over (example_id, row) and a result:
\* the new values of the loop's locals
LoopBody(example_id, row, r) ==
    IF Excluded(row)
    THEN [example_ids |-> example_ids, msgs |-> msgs,
          verified_count |-> verified_count, corrupt_count |-> corrupt_count,
          excluded_count |-> excluded_count + 1]
    ELSE [example_ids |-> IF r.verified = 1 THEN Append(example_ids, example_id)
                          ELSE example_ids,
          msgs |-> IF r.msg # "" THEN Append(msgs, r.msg) ELSE msgs,
          verified_count |-> verified_count + r.verified,
          corrupt_count |-> corrupt_count + r.corrupt,
          excluded_count |-> excluded_count]

\* the main thread takes the next pair of zip(enumerate(table_rows), results)
MainConsume ==
    /\ pc = "scan"
    /\ consumed < Len(table)
    /\ ImapNext(ready, consumed) >= 0
    /\ LET t == ImapNext(ready, consumed)
           new == LoopBody(consumed, At(table, consumed), results[t + 1])
       IN /\ example_ids' = new.example_ids
          /\ msgs' = new.msgs
          /\ verified_count' = new.verified_count
          /\ corrupt_count' = new.corrupt_count
          /\ excluded_count' = new.excluded_count
          /\ pairs' = Append(pairs, [row |-> consumed, task |-> t])
          /\ ready' = SelectSeq(ready, LAMBDA u : u # t)
          /\ results' = [u \in DOMAIN results \ {t + 1} |-> results[u]]
    /\ consumed' = consumed + 1
    /\ UNCHANGED <<tableVars, fs, pc, exc, image_paths, cache_path, im_files,
                   labels, next_task, running, _example_ids, sample, sample_index,
                   verify_calls, cache_writes, file_before, loaded, calls,
                   previous, fnVars, trainerVars, packageVars>>

\* lines 232-233: whether percentage_excluded is computed, and its divisor
PercentageExcluded ==
    [computed |-> excluded_count > 0, divisor |-> Len(table)]

\* the corrupt percentage computed whether or not there are messages
PercentageCorruptAlways ==
    [computed |-> TRUE, divisor |-> Len(table) - excluded_count]

\* lines 239 and 249: whether percentage_corrupt is computed, and its divisor
PercentageCorrupt ==
    [computed |-> msgs # <<>>, divisor |-> Len(table) - excluded_count]

\* one of the two divisions is by zero
ZeroDivision ==
    \/ PercentageExcluded.computed /\ PercentageExcluded.divisor = 0
    \/ PercentageCorrupt.computed /\ PercentageCorrupt.divisor = 0

\* the loop is over: the pool is closed, _get_example_ids_from_table returns,
\* the cache file is written and the rows are built (lines 230-258, 187-192)
FinishScan ==
    /\ pc = "scan"
    /\ consumed = Len(table)
    /\ IF ZeroDivision
       THEN /\ pc' = "raised"
            /\ exc' = "ZeroDivisionError"
            /\ UNCHANGED <<fs, cache_writes, im_files, labels, _example_ids>>
       ELSE /\ fs' = (cache_path :> _save_cached_example_ids(example_ids)) @@ fs
            /\ cache_writes' = cache_writes + 1
            /\ LET built == BuildRows(image_paths, example_ids) IN
                /\ im_files' = built.im_files
                /\ labels' = built.labels
                /\ _example_ids' = built.ids
            /\ pc' = "done"
            /\ UNCHANGED exc
    /\ next_task' = 0 /\ running' = {} /\ results' = <<>> /\ ready' = <<>>
    /\ UNCHANGED <<tableVars, image_paths, cache_path, loopVars, sample, sample_index,
                   verify_calls, file_before, loaded, calls, previous, fnVars, trainerVars, packageVars>>

\* TLCClassificationDataset._index_to_example_id
_index_to_example_id(index) == At(_example_ids, index)

\* ClassificationDataset.__getitem__ of the parent: {"img": ..., "cls": ...}
ParentGetItem(index) == [img |-> At(im_files, index), cls |-> At(labels, index)]

\* a new dict of the one key
SetItemFresh(d, key, value) == [k \in {key} |-> value]

\* d[key] = value on a dict
SetItem(d, key, value) ==
    [k \in DOMAIN d \cup {key} |-> IF k = key THEN value ELSE d[k]]

\* TLCDatasetMixin.__getitem__: the parent's sample and the example id
GetItem(index) ==
    /\ pc = "done"
    /\ index \in 0..(Len(im_files) - 1)
    /\ LET example_id == _index_to_example_id(index) IN
        sample' = SetItem(ParentGetItem(index), "example_id", example_id)
    /\ sample_index' = index
    /\ UNCHANGED <<tableVars, fs, pc, exc, image_paths, cache_path, example_ids,
                   im_files, labels, poolVars, consumed, pairs, verified_count,
                   corrupt_count, excluded_count, msgs, _example_ids,
                   verify_calls, cache_writes, file_before, loaded, calls,
                   previous, fnVars, trainerVars, packageVars>>

\* another dataset is built on the same table, in a later process
Reconstruct ==
    /\ pc = "done"
    /\ calls' = 1
    /\ previous' = [example_ids |-> example_ids, im_files |-> im_files,
                    labels |-> labels]
    /\ pc' = "new"
    /\ exc' = ""
    /\ image_paths' = <<>> /\ cache_path' = _get_cache_path(<<>>, 0)
    /\ example_ids' = <<>> /\ im_files' = <<>> /\ labels' = <<>>
    /\ next_task' = 0 /\ running' = {} /\ results' = <<>> /\ ready' = <<>>
    /\ consumed' = 0 /\ pairs' = <<>>
    /\ verified_count' = 0 /\ corrupt_count' = 0 /\ excluded_count' = 0
    /\ msgs' = <<>>
    /\ _example_ids' = <<>>
    /\ sample' = NoSample
    /\ sample_index' = 0 - 1
    /\ verify_calls' = [p \in 1..Len(table) |-> 0]
    /\ cache_writes' = 0
    /\ file_before' = NoFile
    /\ loaded' = FALSE
    /\ UNCHANGED <<tableVars, fs, fnVars, trainerVars, packageVars>>

\* ------------------------------------------------------------ specification
\* the fields of a dataset on table t before its construction
DatasetFields(t, flag, map, images, files) ==
    /\ table = t /\ exclude_zero = flag /\ class_map = map /\ disk = images
    /\ fs = files
    /\ exc = ""
    /\ image_paths = <<>> /\ cache_path = _get_cache_path(<<>>, 0)
    /\ example_ids = <<>> /\ im_files = <<>> /\ labels = <<>>
    /\ next_task = 0 /\ running = {} /\ results = <<>> /\ ready = <<>>
    /\ consumed = 0 /\ pairs = <<>>
    /\ verified_count = 0 /\ corrupt_count = 0 /\ excluded_count = 0
    /\ msgs = <<>>
    /\ _example_ids = <<>>
    /\ sample = NoSample
    /\ sample_index = 0 - 1
    /\ verify_calls = [p \in 1..Len(t) |-> 0]
    /\ cache_writes = 0
    /\ file_before = NoFile
    /\ loaded = FALSE
    /\ calls = 0
    /\ previous = NoPrevious

\* the state before a dataset is built on table t
NewDataset(t, flag, map, images, files) ==
    /\ DatasetFields(t, flag, map, images, files)
    /\ pc = "new"
    /\ NoTrainer /\ NoPackage
    /\ fn_arg = <<>> /\ fn_mid = <<>> /\ fn_out = <<>>

\* the cache path of table t, as _get_rows_from_table computes it
CachePathOf(t, flag) ==
    _get_cache_path(TableUrl,
        _get_cache_key([p \in 1..Len(t) |->
                           _absolutize_image_url(t[p].image, TableUrl).path], flag))

ScalarFile == [NoFile EXCEPT !.kind = "scalar"]
TextFile == [NoFile EXCEPT !.kind = "text"]

\* every table of up to MaxRows rows, every state of its images; no cache
\* file, or one that holds a JSON value that is no object
Init ==
    \E n \in 0..MaxRows : \E t \in Tables(n) : \E images \in [1..n -> Outcomes] :
    \E flag \in BOOLEAN : \E map \in ClassMaps :
    \E files \in {<<>>, CachePathOf(t, flag) :> ScalarFile} :
        NewDataset(t, flag, map, images, files)

Next ==
    \/ StartRaise
    \/ StartHit
    \/ StartMiss
    \/ WorkerTake
    \/ \E t \in running : WorkerFinish(t)
    \/ MainConsume
    \/ FinishScan
    \/ \E index \in 0..(MaxRows - 1) : GetItem(index)
    \/ Reconstruct

Spec == Init /\ [][Next]_vars

\* ------------------------------------------------------------------ claims
\* what the claims say of table row i (0-based), in the table's own terms
RowImagePath(i) == _absolutize_image_url(At(table, i).image, TableUrl).path
RowLabel(i) == IF class_map # <<>> THEN class_map[At(table, i).label]
               ELSE At(table, i).label
RowVerified(i) == At(disk, i) \in {"ok", "restored"}
RowExcluded(i) == exclude_zero /\ At(table, i).hasWeight /\ At(table, i).weight = 0
RowKept(i) == RowVerified(i) /\ ~RowExcluded(i)

StrictlyIncreasing(s) == \A p, q \in DOMAIN s : p < q => s[p] < s[q]

\* C1: the lists _get_rows_from_table returns are aligned by row: im_files[k]
\* is the image path of table row example_ids[k] and labels[k] is the label
\* of that same row.
C1_RowsAligned ==
    pc = "done" =>
        /\ Len(im_files) = Len(example_ids)
        /\ Len(labels) = Len(example_ids)
        /\ \A k \in 0..(Len(example_ids) - 1) :
            /\ At(im_files, k) = RowImagePath(At(example_ids, k))
            /\ At(labels, k) = RowLabel(At(example_ids, k))

\* C2: the example_id __getitem__ adds to the sample of a dataset index is
\* the table index of the row the sample's image came from.
C2_SampleExampleId ==
    sample_index >= 0 =>
        /\ sample.example_id = At(example_ids, sample_index)
        /\ sample.img = RowImagePath(sample.example_id)

\* C3: _get_example_ids_from_table returns, strictly increasing, exactly the
\* rows whose image verified and that are not excluded as zero-weight rows.
C3_ExampleIdsExact ==
    (pc = "done" /\ ~loaded) \/ (pc = "scan" /\ consumed = Len(table)) =>
        /\ StrictlyIncreasing(example_ids)
        /\ Range(example_ids) = {i \in 0..(Len(table) - 1) : RowKept(i)}

C3_Witness ==
    /\ pc = "done" /\ ~loaded
    /\ Len(example_ids) >= 1
    /\ \E i \in 0..(Len(table) - 1) : ~RowVerified(i) /\ ~RowExcluded(i)
    /\ \E i \in 0..(Len(table) - 1) : RowExcluded(i) /\ RowVerified(i)

RECURSIVE KeptBelow(_)
\* the rows below k that are kept, in increasing order
KeptBelow(k) ==
    IF k = 0 THEN <<>>
    ELSE IF RowKept(k - 1) THEN Append(KeptBelow(k - 1), k - 1)
    ELSE KeptBelow(k - 1)

\* C9: the i-th result the main loop consumes is the result of image_paths[i]
\* and is paired with table row i, whatever the order the workers finish in,
\* so the ids collected do not depend on the interleaving.
C9_OrderedMerge ==
    pc = "scan" =>
        /\ Len(pairs) = consumed
        /\ \A p \in DOMAIN pairs : pairs[p].row = p - 1 /\ pairs[p].task = p - 1
        /\ example_ids = KeptBelow(consumed)

C9_Witness ==
    /\ pc = "scan"
    /\ consumed = 1
    /\ Len(ready) = 2 /\ ready[1] > ready[2]

\* C6: a second construction on the same table loads from the cache exactly
\* the example ids of the first and returns the same image paths and labels.
C6_SecondRunSame ==
    calls = 1 =>
        /\ pc \in {"new", "done"}
        /\ pc = "done" =>
            /\ loaded
            /\ example_ids = previous.example_ids
            /\ im_files = previous.im_files
            /\ labels = previous.labels

C6_Witness ==
    /\ calls = 1 /\ pc = "done"
    /\ Len(example_ids) = 2 /\ example_ids[2] > example_ids[1] + 1
    /\ Len(fs[cache_path].ranges) = 2

\* the counters and the id list of the loop
loopCounters == <<verified_count, corrupt_count, excluded_count, example_ids>>

\* after k results: excluded_count plus the rows processed and not excluded
\* is k, and the id list holds the rows not excluded whose image verified
C10_Counts ==
    pc = "scan" =>
        /\ excluded_count
             + Cardinality({i \in 0..(consumed - 1) : ~RowExcluded(i)}) = consumed
        /\ Len(example_ids) = Cardinality({i \in 0..(consumed - 1) : RowKept(i)})

\* during the scan a step that changes a counter or the id list is a step of
\* the main loop, which takes one result and leaves the workers alone, and a
\* step of the main loop counts its row once
C10_MainThreadOnly ==
    pc = "scan" /\ pc' = "scan" =>
        /\ loopCounters' # loopCounters =>
            /\ consumed' = consumed + 1
            /\ running' = running /\ next_task' = next_task
        /\ consumed' = consumed + 1 =>
            verified_count' + corrupt_count' + excluded_count'
                = verified_count + corrupt_count + excluded_count + 1
        /\ consumed' # consumed => consumed' = consumed + 1

\* C10: the counters and the example id list are written only by the main
\* thread, once per pool result, never by a worker; after k results
\* excluded_count plus the non-excluded rows processed is k and the id list
\* has one entry per non-excluded row among the first k whose image verified.
C10_CountersMainThread == []C10_Counts /\ [][C10_MainThreadOnly]_vars

C10_Witness ==
    /\ pc = "scan"
    /\ consumed >= 2
    /\ excluded_count >= 1
    /\ Len(example_ids) >= 1
    /\ running # {}

\* ------------------------------------------------- files at the cache path
\* a "ranges" element that is no JSON object, and the objects with and
\* without "start" and "end"
NonObject ==
    [obj |-> FALSE, hasStart |-> FALSE, start |-> 0, hasEnd |-> FALSE, end |-> 0]

RangeEntries ==
    {NonObject}
    \cup {[obj |-> TRUE, hasStart |-> hs, start |-> 0, hasEnd |-> he, end |-> 0] :
            hs, he \in BOOLEAN}
    \cup {RangeDict(a, b) : a, b \in 0..MaxCachedId}

\* the files json.loads may find: no JSON, a JSON value that is no object, an
\* object of version 1 with every "ranges" (absent, no list, a list of up to
\* MaxRanges entries), an object of no or another version with and without a
\* good "ranges"
CacheFiles ==
    {TextFile, ScalarFile}
    \cup {CacheObject(TRUE, 1, TRUE, TRUE, r) : r \in SeqsUpTo(RangeEntries, MaxRanges)}
    \cup {CacheObject(TRUE, 1, FALSE, FALSE, <<>>), CacheObject(TRUE, 1, TRUE, FALSE, <<>>)}
    \cup {CacheObject(hv, IF hv THEN 2 ELSE 0, hr, hr, IF hr THEN <<RangeDict(0, 0)>> ELSE <<>>) :
            hv, hr \in BOOLEAN}

\* the tables of n rows of weight 1
PlainTable(n) == [p \in 1..n |-> TableRow(GoodForm(p), p, "one")]

\* a table of fewer than MaxRows rows of weight 1, its images good or corrupt,
\* and any file at its cache path
InitCache ==
    \E n \in 1..(MaxRows - 1) : \E images \in [1..n -> {"ok", "corrupt"}] :
    \E flag \in BOOLEAN : \E file \in CacheFiles :
        NewDataset(PlainTable(n), flag, <<>>, images,
                   CachePathOf(PlainTable(n), flag) :> file)

SpecCache == InitCache /\ [][Next]_vars

\* the file is a JSON object of version 1 whose "ranges" is a list of objects
\* that all have "start" and "end"
WellFormedCache(f) ==
    /\ f.kind = "object"
    /\ f.hasVersion /\ f.version = 1
    /\ f.hasRanges /\ f.rangesIsList
    /\ \A p \in DOMAIN f.ranges :
        f.ranges[p].obj /\ f.ranges[p].hasStart /\ f.ranges[p].hasEnd

\* the file is one of the unusable caches the claim lists
UnusableCache(f) ==
    \/ f.kind = "text"
    \/ f.kind = "scalar"
    \/ /\ f.kind = "object"
       /\ \/ ~f.hasVersion
          \/ f.version # 1
          \/ ~f.hasRanges
          \/ /\ f.rangesIsList
             /\ \E p \in DOMAIN f.ranges :
                 ~f.ranges[p].obj \/ ~f.ranges[p].hasStart \/ ~f.ranges[p].hasEnd

NoVerification == \A p \in DOMAIN verify_calls : verify_calls[p] = 0
FullVerification == \A p \in DOMAIN verify_calls : verify_calls[p] = 1

RECURSIVE RangesIds(_)
\* the ids a list of well-formed ranges stands for
RangesIds(ranges) ==
    IF ranges = <<>> THEN <<>>
    ELSE LET a == Head(ranges).start
             b == Head(ranges).end
         IN (IF b < a THEN <<>> ELSE [q \in 1..(b - a + 1) |-> a + q - 1])
            \o RangesIds(Tail(ranges))

\* C4: with an unusable file at the cache path, _get_rows_from_table does not
\* raise: it recomputes the ids by verifying every image and overwrites the
\* file.
C4_UnusableCacheFallsBack ==
    pc \in {"done", "raised"} /\ UnusableCache(file_before) =>
        /\ pc = "done"
        /\ ~loaded
        /\ FullVerification
        /\ cache_writes = 1
        /\ fs[cache_path] = CacheObject(TRUE, 1, TRUE, TRUE, fs[cache_path].ranges)
        /\ RangesIds(fs[cache_path].ranges) = example_ids

\* C5 as stated: a file of version 1 with a ranges field is a cache hit, with
\* no image verification and no write of the cache file.
C5_HitByVersionAndRanges ==
    file_before.kind = "object" /\ file_before.hasVersion
        /\ file_before.version = 1 /\ file_before.hasRanges =>
            NoVerification /\ cache_writes = 0

\* C5: on a cache hit (a JSON object of version 1 whose ranges is a list of
\* objects with start and end) the decoded ids are used, no image is verified
\* and the cache file is not written; verification and a write happen only
\* without such a file.
C5_HitNoScan ==
    /\ WellFormedCache(file_before) =>
        /\ NoVerification
        /\ cache_writes = 0
        /\ pc # "scan"
        /\ pc = "done" => loaded /\ example_ids = RangesIds(file_before.ranges)
    /\ ~NoVerification \/ cache_writes > 0 => ~WellFormedCache(file_before)

C5_Witness ==
    /\ pc = "done" /\ calls = 0
    /\ WellFormedCache(file_before)
    /\ loaded
    /\ Len(example_ids) >= 1
    /\ fs[cache_path] = file_before

\* the rows among the first k that the loop skips (exclusion enabled, a weight
\* value there and 0) and the rows it counts
SkippedBelow(k) ==
    {i \in 0..(k - 1) : exclude_zero /\ At(table, i).hasWeight
                          /\ At(table, i).weight = 0}
CountedBelow(k) == (0..(k - 1)) \ SkippedBelow(k)

\* the messages of the counted rows among the first k, in row order
RECURSIVE MsgsBelow(_)
MsgsBelow(k) ==
    IF k = 0 THEN <<>>
    ELSE LET m == verify_image(At(disk, k - 1)).msg IN
         IF k - 1 \in CountedBelow(k) /\ m # "" THEN Append(MsgsBelow(k - 1), m)
         ELSE MsgsBelow(k - 1)

\* C22: exclusion of zero-weight rows comes before the verification result
\* and only when enabled: after k rows excluded_count is the number of rows of
\* weight 0 if exclude_zero is on and 0 if it is off, and the verified count,
\* the corrupt count, the messages and the example ids are those of the other
\* rows alone; a row without a weight value is among the other rows.
C22_ExclusionFirst ==
    pc \in {"scan", "done"} =>
        /\ excluded_count = Cardinality(SkippedBelow(consumed))
        /\ verified_count = Cardinality({i \in CountedBelow(consumed) :
                                verify_image(At(disk, i)).verified = 1})
        /\ corrupt_count = Cardinality({i \in CountedBelow(consumed) :
                                verify_image(At(disk, i)).corrupt = 1})
        /\ msgs = MsgsBelow(consumed)
        /\ ~loaded => Range(example_ids)
                        = {i \in CountedBelow(consumed) :
                                verify_image(At(disk, i)).verified = 1}
        /\ ~exclude_zero => excluded_count = 0
        /\ \A i \in 0..(consumed - 1) :
            ~At(table, i).hasWeight => i \in CountedBelow(consumed)

\* a scan with exclusion on: a row of weight 0 with a corrupt image that left
\* no trace, and a row without a weight whose corrupt image was counted
C22_Witness ==
    /\ pc = "scan" /\ exclude_zero
    /\ consumed = 3
    /\ At(table, 0).hasWeight /\ At(table, 0).weight = 0
    /\ At(disk, 0) = "corrupt"
    /\ ~At(table, 1).hasWeight /\ At(disk, 1) = "corrupt"
    /\ At(disk, 2) = "ok" /\ 2 \in CountedBelow(3)
    /\ excluded_count = 1 /\ corrupt_count = 1 /\ verified_count = 1
    /\ msgs = <<"corrupt">> /\ example_ids = <<2>>

\* C24: where _get_example_ids_from_table computes a percentage its divisor
\* is at least 1: the excluded percentage is computed only with a row in the
\* table, the corrupt percentage only with a row that was not excluded; no
\* scan ends in a division by zero.
C24_DivisorsPositive ==
    /\ exc # "ZeroDivisionError"
    /\ (pc = "scan" /\ consumed = Len(table)) \/ (pc = "done" /\ ~loaded) =>
        /\ PercentageExcluded.computed =>
            excluded_count > 0 /\ PercentageExcluded.divisor >= 1
        /\ PercentageCorrupt.computed =>
            /\ Len(msgs) >= 1
            /\ CountedBelow(Len(table)) # {}
            /\ PercentageCorrupt.divisor >= 1

\* both percentages computed, the corrupt one over the single row left
C24_Witness ==
    /\ pc = "done" /\ ~loaded
    /\ Len(table) = 3
    /\ excluded_count = 2
    /\ corrupt_count = 1 /\ Len(msgs) = 1
    /\ PercentageExcluded.computed /\ PercentageExcluded.divisor = 3
    /\ PercentageCorrupt.computed /\ PercentageCorrupt.divisor = 1

\* the file is a JSON object that lacks version 1 or lacks "ranges"
VersionOrRangesMissing(f) ==
    /\ f.kind = "object"
    /\ ~f.hasVersion \/ f.version # 1 \/ ~f.hasRanges

\* the file is a JSON object with "version" 1 and a "ranges" field
VersionAndRanges(f) ==
    f.kind = "object" /\ f.hasVersion /\ f.version = 1 /\ f.hasRanges

\* C21: a cache file is used only if its version is 1 and it has a ranges
\* field: for a JSON object without version 1 (its ranges valid or not) or
\* without ranges (its version 1 or not) the load returns None, the ids are
\* computed by the scan and the file is written again; a file the dataset
\* writes has version 1 and ranges.
C21_VersionAndRangesRequired ==
    /\ loaded => VersionAndRanges(file_before)
    /\ VersionOrRangesMissing(file_before) =>
        /\ _load_cached_example_ids(file_before)
             = [exc |-> "", none |-> TRUE, ids |-> <<>>]
        /\ ~loaded
        /\ pc \in {"scan", "done"}
        /\ pc = "done" => FullVerification /\ cache_writes = 1
    /\ cache_writes > 0 =>
        /\ VersionAndRanges(fs[cache_path])
        /\ fs[cache_path] = _save_cached_example_ids(example_ids)

C21_Witness ==
    /\ pc = "done" /\ calls = 0
    /\ file_before.kind = "object"
    /\ file_before.hasVersion /\ file_before.version = 2
    /\ file_before.hasRanges /\ file_before.ranges = <<RangeDict(0, 0)>>
    /\ ~loaded /\ cache_writes = 1
    /\ VersionAndRanges(fs[cache_path])
    /\ Len(example_ids) >= 1

\* C19: in one scan every image is submitted to verify_image exactly once; an
\* image that fails is not retried and does not end the scan: every row is
\* processed, the ids of the other rows are returned and the result is
\* written to the cache file.
C19_VerifiedOnceNoAbort ==
    /\ \A p \in DOMAIN verify_calls : verify_calls[p] <= 1
    /\ pc = "raised" => NoVerification
    /\ pc = "done" /\ ~loaded =>
        /\ FullVerification
        /\ consumed = Len(table)
        /\ \A i \in 0..(Len(table) - 1) : RowKept(i) => i \in Range(example_ids)
        /\ cache_writes = 1
        /\ RangesIds(fs[cache_path].ranges) = example_ids

C19_Witness ==
    /\ pc = "done" /\ ~loaded
    /\ corrupt_count >= 1
    /\ \E i, j \in 0..(Len(table) - 1) :
        /\ i < j
        /\ At(disk, i) = "corrupt" /\ ~RowExcluded(i)
        /\ RowKept(j) /\ j \in Range(example_ids)
    /\ cache_writes = 1

\* C16: the sample __getitem__ returns for an index has every key of the
\* parent's sample for that index with the parent's value, and one key more,
\* example_id.
C16_SampleFrame ==
    sample_index >= 0 =>
        LET parent == ParentGetItem(sample_index) IN
        /\ \A key \in DOMAIN parent :
            key \in DOMAIN sample /\ sample[key] = parent[key]
        /\ DOMAIN sample \ DOMAIN parent = {"example_id"}

C16_Witness ==
    /\ pc = "done"
    /\ sample_index = 1
    /\ Len(im_files) >= 2
    /\ DOMAIN sample = {"img", "cls", "example_id"}
    /\ sample.img = At(im_files, 1)
    /\ class_map # <<>> /\ sample.cls = At(labels, 1)

\* ------------------------------------------- tables that fail the schema
ImageTypes == {"str", "NoneType", "bytes"}
LabelTypes == {"int", "bool", "float", "str", "NoneType"}

\* the table of n rows of weight 1 whose first row has values of these types
TypedTable(n, imageType, labelType) ==
    [p \in 1..n |->
        IF p = 1
        THEN [TableRow(GoodForm(p), p, "one") EXCEPT !.imageType = imageType,
                                                     !.labelType = labelType]
        ELSE TableRow(GoodForm(p), p, "one")]

\* a table of fewer than MaxRows rows, none too, the first row's image and
\* label of any type; no cache file, or the file a scan of the table with a
\* good first row and good images leaves
InitSchema ==
    \E n \in 0..(MaxRows - 1) : \E imageType \in ImageTypes :
    \E labelType \in LabelTypes : \E images \in [1..n -> {"ok", "corrupt"}] :
    \E flag \in BOOLEAN :
    \E files \in {<<>>, CachePathOf(PlainTable(n), flag)
                            :> _save_cached_example_ids(PyRange(0, n))} :
        NewDataset(TypedTable(n, imageType, labelType), flag, <<>>, images, files)

SpecSchema == InitSchema /\ [][Next]_vars

\* C18: building a TLCClassificationDataset on a table without rows, or whose
\* first row has an image that is no string or a label that is no integer,
\* fails with an AssertionError before any image is verified and before the
\* cache file is read or written.
C18_SchemaAssertion ==
    (\/ Len(table) = 0
     \/ At(table, 0).imageType # "str"
     \/ At(table, 0).labelType \notin {"int", "bool"}) =>
        /\ pc \in {"new", "raised"}
        /\ pc = "raised" => exc = "AssertionError"
        /\ NoVerification
        /\ cache_writes = 0
        /\ file_before = NoFile /\ ~loaded

C18_Witness ==
    /\ pc = "raised" /\ exc = "AssertionError"
    /\ Len(table) = 2
    /\ At(table, 0).imageType = "str" /\ At(table, 0).labelType = "float"
    /\ CachePath \in DOMAIN fs

\* ------------------------------------- tables with unusable image strings
\* the tables of n rows of weight 1 with image strings of every form
FormTables(n) ==
    {[p \in 1..n |-> TableRow(forms[p], p, "one")] : forms \in [1..n -> ImageForms]}

\* the image string has an alias that is not registered, or is no local file
BadImageStr(image_str) == image_str.form \in {"badalias", "remote"}

\* a table of fewer than MaxRows rows with image strings of every form, its
\* images good or corrupt; no cache file, or a file of all the rows' ids at
\* the cache path
InitUrl ==
    \E n \in 1..(MaxRows - 1) : \E t \in FormTables(n) :
    \E images \in [1..n -> {"ok", "corrupt"}] : \E flag \in BOOLEAN :
    \E files \in {<<>>, CachePathOf(t, flag)
                            :> _save_cached_example_ids(PyRange(0, n))} :
        NewDataset(t, flag, <<>>, images, files)

SpecUrl == InitUrl /\ [][Next]_vars

\* C25: with a row whose image string has an alias that cannot be expanded or
\* is no local file, the construction fails with ValueError before the cache
\* key is computed: no image is verified, no cache file is read or written.
C25_UrlValueError ==
    (\E p \in DOMAIN table : BadImageStr(table[p].image)) =>
        /\ pc \in {"new", "raised"}
        /\ pc = "raised" => exc = "ValueError"
        /\ NoVerification
        /\ cache_writes = 0
        /\ file_before = NoFile /\ ~loaded
        /\ image_paths = <<>>
        /\ cache_path = _get_cache_path(<<>>, 0)
        /\ im_files = <<>> /\ labels = <<>>

\* the first row good, the second a remote url, a cache file on disk
C25_Witness ==
    /\ pc = "raised" /\ exc = "ValueError"
    /\ Len(table) = 2
    /\ At(table, 0).image.form = "alias"
    /\ At(table, 1).image.form = "remote"
    /\ fs # <<>>
    /\ NoVerification /\ cache_writes = 0

\* ------------------------------------------------ the range coder by itself
datasetVars == <<table, exclude_zero, class_map, disk, fs, exc, image_paths,
                 cache_path, example_ids, im_files, labels, next_task, running,
                 results, ready, consumed, pairs, verified_count,
                 corrupt_count, excluded_count, msgs, _example_ids, sample,
                 sample_index, verify_calls, cache_writes, file_before,
                 loaded, calls, previous>>

NoDataset == DatasetFields(<<>>, FALSE, <<>>, <<>>, <<>>)

\* every list of up to MaxIds integers from -1 to MaxIdValue
InitCodec ==
    /\ NoDataset
    /\ NoTrainer /\ NoPackage
    /\ pc = "encode"
    /\ fn_arg \in SeqsUpTo((0 - 1)..MaxIdValue, MaxIds)
    /\ fn_mid = <<>> /\ fn_out = <<>>

ApplyEncode ==
    /\ pc = "encode"
    /\ fn_mid' = _encode_example_ids(fn_arg)
    /\ pc' = "decode"
    /\ UNCHANGED <<datasetVars, trainerVars, packageVars, fn_arg, fn_out>>

ApplyDecode ==
    /\ pc = "decode"
    /\ fn_out' = _decode_example_ids(fn_mid)
    /\ pc' = "decoded"
    /\ UNCHANGED <<datasetVars, trainerVars, packageVars, fn_arg, fn_mid>>

NextCodec == ApplyEncode \/ ApplyDecode

SpecCodec == InitCodec /\ [][NextCodec]_vars

\* C7: decoding the ranges a list of integers is encoded to gives the list
\* back, the same elements in the same order.
C7_RoundTrip ==
    pc = "decoded" => fn_out.exc = "" /\ fn_out.ids = fn_arg

C7_Witness ==
    /\ pc = "decoded"
    /\ Len(fn_arg) = 4
    /\ Len(fn_mid) = 3
    /\ \E p \in DOMAIN fn_mid : fn_mid[p].start < fn_mid[p].end
    /\ ~StrictlyIncreasing(fn_arg)
    /\ fn_out.ids = fn_arg

\* the places of a list whose successor is not the next integer
Gaps(s) == {p \in 1..(Len(s) - 1) : s[p + 1] # s[p] + 1}

\* C20: for a strictly increasing list the ranges of _encode_example_ids are
\* well formed and maximal: start <= end in every range, the ranges increasing
\* and disjoint, each range after the first starting more than one above the
\* end of the one before, and as many ranges as the list has gaps plus one
\* (none for the empty list).
C20_RangesMaximal ==
    pc \in {"decode", "decoded"} /\ StrictlyIncreasing(fn_arg) =>
        /\ \A p \in DOMAIN fn_mid :
            /\ fn_mid[p].obj /\ fn_mid[p].hasStart /\ fn_mid[p].hasEnd
            /\ fn_mid[p].start <= fn_mid[p].end
        /\ \A p, q \in DOMAIN fn_mid : p < q => fn_mid[p].end < fn_mid[q].start
        /\ \A p \in DOMAIN fn_mid :
            p > 1 => fn_mid[p].start > fn_mid[p - 1].end + 1
        /\ Len(fn_mid) = IF fn_arg = <<>> THEN 0
                         ELSE Cardinality(Gaps(fn_arg)) + 1

C20_Witness ==
    /\ pc = "decode"
    /\ StrictlyIncreasing(fn_arg)
    /\ Len(fn_arg) = 4
    /\ Len(fn_mid) = 2
    /\ fn_mid[1].start < fn_mid[1].end
    /\ fn_mid[2].start > fn_mid[1].end + 1

\* ------------------------------------------------- the cache key by itself
\* absolute image paths: the strings of one or two of two characters
PathStrs == {<<1>>, <<2>>, <<1, 1>>, <<1, 2>>, <<2, 1>>, <<2, 2>>}

Perms(n) == {f \in [1..n -> 1..n] : \A a, b \in 1..n : f[a] = f[b] => a = b}

Permuted(list, perm) == [p \in DOMAIN list |-> list[perm[p]]]

\* every list of up to MaxPaths paths, every reordering of it, either flag
InitKey ==
    /\ NoDataset
    /\ NoTrainer /\ NoPackage
    /\ pc = "key"
    /\ \E n \in 0..MaxPaths : \E paths \in [1..n -> PathStrs] :
       \E perm \in Perms(n) : \E flag \in BOOLEAN :
           fn_arg = [paths |-> paths, perm |-> perm, exclude_zero |-> flag]
    /\ fn_mid = <<>> /\ fn_out = <<>>

ApplyKey ==
    /\ pc = "key"
    /\ LET key == _get_cache_key(fn_arg.paths, fn_arg.exclude_zero)
           key_permuted == _get_cache_key(Permuted(fn_arg.paths, fn_arg.perm),
                                          fn_arg.exclude_zero)
       IN fn_out' = [key |-> key, key_permuted |-> key_permuted,
                     path |-> _get_cache_path(TableUrl, key),
                     path_permuted |-> _get_cache_path(TableUrl, key_permuted)]
    /\ pc' = "keyed"
    /\ UNCHANGED <<datasetVars, trainerVars, packageVars, fn_arg, fn_mid>>

NextKey == ApplyKey

SpecKey == InitKey /\ [][NextKey]_vars

\* C8: a reordering of the image paths has the same cache key under the same
\* exclude_zero, and so the same cache file url for the same table.
C8_KeyStable ==
    pc = "keyed" =>
        /\ fn_out.key = fn_out.key_permuted
        /\ fn_out.path = fn_out.path_permuted

C8_Witness ==
    /\ pc = "keyed"
    /\ Len(fn_arg.paths) = 3
    /\ Permuted(fn_arg.paths, fn_arg.perm) # fn_arg.paths
    /\ sorted(fn_arg.paths) # fn_arg.paths
    /\ sorted(fn_arg.paths) # Permuted(fn_arg.paths, fn_arg.perm)

\* --------------------------------------------- the key strings of two lists
\* absolute paths of one and of two components
AbsPathStrs ==
    {Slash \o <<a>> : a \in 1..2}
    \cup {Slash \o <<a>> \o Slash \o <<b>> : a, b \in 1..2}

\* two calls of _get_cache_key: every two lists of fewer than MaxPaths
\* absolute paths, each with either flag
InitKeyPair ==
    /\ NoDataset
    /\ NoTrainer /\ NoPackage
    /\ pc = "keypair"
    /\ \E paths, other \in SeqsUpTo(AbsPathStrs, MaxPaths - 1) :
       \E flag, other_flag \in BOOLEAN :
           fn_arg = [paths |-> paths, exclude_zero |-> flag,
                     other |-> other, other_exclude_zero |-> other_flag]
    /\ fn_mid = <<>> /\ fn_out = <<>>

\* lines 69-76 for both calls: the strings that are hashed, and the keys
ApplyKeyPair ==
    /\ pc = "keypair"
    /\ fn_mid' = [paths_str |-> CacheKeyString(fn_arg.paths, fn_arg.exclude_zero),
                  other_str |-> CacheKeyString(fn_arg.other,
                                               fn_arg.other_exclude_zero)]
    /\ fn_out' = [key |-> _get_cache_key(fn_arg.paths, fn_arg.exclude_zero),
                  other_key |-> _get_cache_key(fn_arg.other,
                                               fn_arg.other_exclude_zero)]
    /\ pc' = "keyedpair"
    /\ UNCHANGED <<datasetVars, trainerVars, packageVars, fn_arg>>

NextKeyPair == ApplyKeyPair

SpecKeyPair == InitKeyPair /\ [][NextKeyPair]_vars

\* C23: two calls of _get_cache_key hash the same string only if they have
\* the same exclude_zero and their path lists are permutations of each other.
C23_KeyStringInjective ==
    pc = "keyedpair" /\ fn_mid.paths_str = fn_mid.other_str =>
        /\ fn_arg.exclude_zero = fn_arg.other_exclude_zero
        /\ sorted(fn_arg.paths) = sorted(fn_arg.other)

\* ------------------------------------------------------- check_cls_table
\* tlc.STRING_ROLE_IMAGE_URL and tlc.LABEL, and a role that is neither
STRING_ROLE_IMAGE_URL == "image_url"
LABEL == "label"
OtherRole == ""

ColumnNames == {"image", "label", "weight"}

\* the scalar value of a column's schema, with its roles
ColumnValues ==
    [string_role : {STRING_ROLE_IMAGE_URL, OtherRole},
     number_role : {LABEL, OtherRole}]

\* table.row_schema.values: the columns of the schema and their values
RowSchemas == UNION {[cols -> ColumnValues] : cols \in SUBSET ColumnNames}

\* lines 98-113: the number of the first assertion that fails, 0 if none does
FailedAssertion(row_schema, image_column_name, label_column_name) ==
    IF image_column_name \notin DOMAIN row_schema THEN 1
    ELSE IF label_column_name \notin DOMAIN row_schema THEN 2
    ELSE IF row_schema[image_column_name].string_role # STRING_ROLE_IMAGE_URL THEN 3
    ELSE IF row_schema[label_column_name].number_role # LABEL THEN 4
    ELSE 0

\* the assertions without the try: the AssertionError leaves the function
CheckClsTableBare(row_schema, image_column_name, label_column_name) ==
    LET failed == FailedAssertion(row_schema, image_column_name, label_column_name)
    IN [exc |-> IF failed # 0 THEN "AssertionError" ELSE "", failed |-> failed]

\* check_cls_table: the exception that leaves it ("" when it returns) and
\* the assertion that failed
check_cls_table(row_schema, image_column_name, label_column_name) ==
    LET failed == FailedAssertion(row_schema, image_column_name, label_column_name)
    IN [exc |-> IF failed # 0 THEN "ValueError" ELSE "", failed |-> failed]

\* every schema over the three columns, every pair of column names
InitCheck ==
    /\ NoDataset
    /\ NoTrainer /\ NoPackage
    /\ pc = "check"
    /\ \E row_schema \in RowSchemas : \E image_column_name \in ColumnNames :
       \E label_column_name \in ColumnNames :
           fn_arg = [row_schema |-> row_schema,
                     image_column_name |-> image_column_name,
                     label_column_name |-> label_column_name]
    /\ fn_mid = <<>> /\ fn_out = <<>>

ApplyCheck ==
    /\ pc = "check"
    /\ fn_out' = check_cls_table(fn_arg.row_schema, fn_arg.image_column_name,
                                 fn_arg.label_column_name)
    /\ pc' = "checked"
    /\ UNCHANGED <<datasetVars, trainerVars, packageVars, fn_arg, fn_mid>>

NextCheck == ApplyCheck

SpecCheck == InitCheck /\ [][NextCheck]_vars

\* the four conditions on the schema
ImageColumnThere == fn_arg.image_column_name \in DOMAIN fn_arg.row_schema
LabelColumnThere == fn_arg.label_column_name \in DOMAIN fn_arg.row_schema
ImageRoleGood ==
    fn_arg.row_schema[fn_arg.image_column_name].string_role = STRING_ROLE_IMAGE_URL
LabelRoleGood ==
    fn_arg.row_schema[fn_arg.label_column_name].number_role = LABEL

\* C15: check_cls_table raises ValueError, never a bare AssertionError, when
\* the image or the label column is not in the schema or has not its role,
\* and returns without error exactly when all four conditions hold.
C15_ValueErrorOnly ==
    pc = "checked" =>
        /\ fn_out.exc \in {"", "ValueError"}
        /\ fn_out.exc = "" <=>
            /\ ImageColumnThere /\ LabelColumnThere
            /\ ImageRoleGood /\ LabelRoleGood

C15_Witness ==
    /\ pc = "checked"
    /\ fn_out.exc = "ValueError"
    /\ ImageColumnThere /\ LabelColumnThere
    /\ ImageRoleGood /\ ~LabelRoleGood
    /\ fn_arg.image_column_name # fn_arg.label_column_name

\* ------------------------------------------------- importing the package
\* tlc_ultralytics/__init__.py, a binding at a time: the line of the
\* statement and the names it binds in the package (an import from a
\* submodule binds the submodule too, before the first of its names)
InitBindings ==
    << [line |-> 2, names |-> {"ultralytics"}],
       [line |-> 3, names |-> {"overrides", "build_dataloader"}],
       [line |-> 5, names |-> {}],
       [line |-> 7, names |-> {"classify", "TLCClassificationTrainer"}],
       [line |-> 7, names |-> {"TLCClassificationValidator"}],
       [line |-> 8, names |-> {"detect", "TLCDetectionTrainer"}],
       [line |-> 8, names |-> {"TLCDetectionValidator"}],
       [line |-> 9, names |-> {"engine", "TLCYOLO"}],
       [line |-> 10, names |-> {"segment", "TLCSegmentationTrainer"}],
       [line |-> 10, names |-> {"TLCSegmentationValidator"}],
       [line |-> 11, names |-> {"settings", "Settings"}],
       [line |-> 13, names |-> {"__all__"}] >>

\* the submodules of the package, which "from tlc_ultralytics import name"
\* falls back to when the package has no attribute of that name
Submodules ==
    {"overrides", "classify", "detect", "engine", "segment", "settings",
     "utils", "constants"}

\* the scripts and the names of their "from tlc_ultralytics import ..."
Scripts ==
    [examples_classify_train |-> <<"Settings", "YOLO">>,
     examples_classify_collect |-> <<"YOLO">>,
     examples_detect_train |-> <<"TLCYOLO">>,
     examples_detect_collect |-> <<"TLCYOLO">>,
     examples_segment_train |-> <<"YOLO", "Settings">>,
     examples_segment_collect |-> <<"YOLO">>,
     tests_training_script |-> <<"Settings", "YOLO">>,
     tests_train_3lc |-> <<"YOLO">>,
     tests_dataset_determinism |-> <<"Settings">>]

\* a fresh interpreter that runs one of the scripts
InitImport ==
    /\ NoDataset
    /\ NoTrainer
    /\ pc = "import"
    /\ fn_arg = <<>> /\ fn_mid = <<>> /\ fn_out = <<>>
    /\ script \in DOMAIN Scripts
    /\ namespace = {}
    /\ ipc = [at |-> "init", step |-> 0]
    /\ import_result = [exc |-> "", bound |-> {}]

\* the next binding of the package's __init__ module
ExecInit ==
    /\ ipc.at = "init"
    /\ ipc.step < Len(InitBindings)
    /\ namespace' = namespace \cup At(InitBindings, ipc.step).names
    /\ ipc' = [ipc EXCEPT !.step = @ + 1]
    /\ UNCHANGED <<datasetVars, pc, trainerVars, fnVars, script, import_result>>

\* the package is initialised: the from-import of the script goes on
InitDone ==
    /\ ipc.at = "init"
    /\ ipc.step = Len(InitBindings)
    /\ ipc' = [at |-> "from", step |-> 0]
    /\ UNCHANGED <<datasetVars, pc, trainerVars, fnVars, script, namespace,
                   import_result>>

\* the package's attribute named name, or its submodule of that name
Importable(name) == name \in namespace \/ name \in Submodules

\* the next name of the script's from-import: bound, or ImportError
ImportFrom ==
    /\ ipc.at = "from"
    /\ ipc.step < Len(Scripts[script])
    /\ LET name == At(Scripts[script], ipc.step) IN
        IF Importable(name)
        THEN /\ import_result' = [import_result EXCEPT !.bound = @ \cup {name}]
             /\ ipc' = [ipc EXCEPT !.step = @ + 1]
        ELSE /\ import_result' = [import_result EXCEPT !.exc = "ImportError"]
             /\ ipc' = [at |-> "end", step |-> ipc.step]
    /\ UNCHANGED <<datasetVars, pc, trainerVars, fnVars, script, namespace>>

\* every name is bound: the script runs on
ImportDone ==
    /\ ipc.at = "from"
    /\ ipc.step = Len(Scripts[script])
    /\ ipc' = [at |-> "end", step |-> ipc.step]
    /\ UNCHANGED <<datasetVars, pc, trainerVars, fnVars, script, namespace,
                   import_result>>

NextImport == ExecInit \/ InitDone \/ ImportFrom \/ ImportDone

SpecImport == InitImport /\ [][NextImport]_vars

\* C17: every name the example scripts and the tests import from the package
\* (YOLO, TLCYOLO, Settings) is bound by the package's __init__ module, so
\* every one of these imports succeeds.
C17_ImportsSucceed ==
    /\ ipc.at = "from" =>
        \A k \in 0..(Len(Scripts[script]) - 1) : At(Scripts[script], k) \in namespace
    /\ ipc.at = "end" =>
        /\ import_result.exc = ""
        /\ import_result.bound = Range(Scripts[script])

\* ----------------------------------------------------------- the trainer
\* RANK in {-1, 0}: the main process
MainRanks == {0 - 1, 0}
Ranks == {0 - 1, 0, 1}

\* the settings a caller passes: collection_epoch_start 0 stands for None
SettingsValues ==
    [collection_disable : BOOLEAN, collection_val_only : BOOLEAN,
     image_embeddings_dim : {0, 2},
     collection_epoch_start : 0..MaxEpochs,
     collection_epoch_interval : {1, 2}]

\* Settings.get_metrics_collection_epochs(epochs): the epochs from
\* collection_epoch_start on, every collection_epoch_interval, up to epochs;
\* none without a start
get_metrics_collection_epochs(settings, n_epochs) ==
    IF settings.collection_epoch_start = 0 THEN {}
    ELSE {e \in 1..n_epochs :
            /\ e >= settings.collection_epoch_start
            /\ (e - settings.collection_epoch_start)
                 % settings.collection_epoch_interval = 0}

\* the overrides argument: None (the default), or a dict with some of the
\* keys "data", "tables" and "settings"; given keeps the keys the caller
\* passed, keys are the keys the dict holds now
OverridesValues ==
    {[none |-> TRUE, given |-> {}, keys |-> {}, settings |-> DefaultSettings]}
    \cup {[none |-> FALSE, given |-> keys, keys |-> keys,
           settings |-> DefaultSettings] : keys \in SUBSET {"data", "tables"}}
    \cup {[none |-> FALSE, given |-> keys \cup {"settings"},
           keys |-> keys \cup {"settings"}, settings |-> settings] :
            keys \in SUBSET {"data", "tables"}, settings \in SettingsValues}

\* what the trainer did, with the epoch it did it in
Event(op) == [op |-> op, epoch |-> epoch]

\* a process of some rank that constructs a trainer for up to MaxEpochs
\* epochs; a best checkpoint may be there from the start
InitTrainer ==
    /\ NoDataset
    /\ NoPackage
    /\ pc = "trainer"
    /\ fn_arg = <<>> /\ fn_mid = <<>> /\ fn_out = <<>>
    /\ RANK \in Ranks
    /\ overrides \in OverridesValues
    /\ epochs \in 1..MaxEpochs
    /\ best \in BOOLEAN
    /\ _settings = DefaultSettings
    /\ epoch = 0
    /\ validator = NoValidator /\ _train_validator = NoValidator
    /\ _metrics_collection_epochs = {}
    /\ _run = NoRun
    /\ tpc = "new" /\ texc = "" /\ events = <<>> /\ returned = NoMetrics
    /\ random_state = 0 /\ upstream_random_state = 0

otherVars == <<datasetVars, pc, fnVars, packageVars>>

\* lines 21-23: the settings are popped from the overrides and verified;
\* overrides None has no pop
TrainerSettings ==
    /\ tpc = "new"
    /\ IF overrides.none
       THEN /\ tpc' = "raised" /\ texc' = "AttributeError"
            /\ UNCHANGED <<overrides, _settings>>
       ELSE /\ _settings' = IF "settings" \in overrides.keys
                            THEN overrides.settings ELSE DefaultSettings
            /\ overrides' = [overrides EXCEPT !.keys = @ \ {"settings"}]
            /\ tpc' = "assert" /\ UNCHANGED texc
    /\ UNCHANGED <<otherVars, randomVars, RANK, epochs, epoch, best, validator,
                   _train_validator, _metrics_collection_epochs, _run, events,
                   returned>>

\* line 25: "data" in overrides or "tables" in overrides
HasData(keys) == "data" \in keys \/ "tables" \in keys

\* lines 25-33: the assertion, then the tables are popped
TrainerAssert ==
    /\ tpc = "assert"
    /\ IF HasData(overrides.keys)
       THEN /\ overrides' = [overrides EXCEPT !.keys = @ \ {"tables"}]
            /\ tpc' = "super" /\ UNCHANGED texc
       ELSE /\ tpc' = "raised" /\ texc' = "AssertionError"
            /\ UNCHANGED overrides
    /\ UNCHANGED <<otherVars, randomVars, RANK, _settings, epochs, epoch, best, validator,
                   _train_validator, _metrics_collection_epochs, _run, events,
                   returned>>

\* lines 35-37: the upstream trainer is initialised, no train validator yet
TrainerSuperInit ==
    /\ tpc = "super"
    /\ events' = Append(events, Event("upstream_init"))
    /\ _train_validator' = NoValidator
    /\ tpc' = "rank"
    /\ UNCHANGED <<otherVars, randomVars, RANK, overrides, _settings, epochs, epoch, best,
                   validator, _metrics_collection_epochs, _run, texc, returned>>

\* lines 39-58: on the main rank the collection epochs are computed and the
\* run is created
TrainerRun ==
    /\ tpc = "rank"
    /\ IF RANK \in MainRanks
       THEN /\ _metrics_collection_epochs' =
                   get_metrics_collection_epochs(_settings, epochs)
            /\ _run' = [_run EXCEPT !.created = TRUE]
            /\ events' = Append(events, Event("tlc_init"))
            /\ tpc' = "log"
       ELSE /\ tpc' = "constructed"
            /\ UNCHANGED <<_metrics_collection_epochs, _run, events>>
    /\ UNCHANGED <<otherVars, randomVars, RANK, overrides, _settings, epochs, epoch, best,
                   validator, _train_validator, texc, returned>>

\* lines 60-61: _log_3lc_parameters
TrainerLogParameters ==
    /\ tpc = "log"
    /\ _run' = [_run EXCEPT !.parameters = TRUE]
    /\ events' = Append(events, Event("set_parameters"))
    /\ tpc' = "running"
    /\ UNCHANGED <<otherVars, randomVars, RANK, overrides, _settings, epochs, epoch, best,
                   validator, _train_validator, _metrics_collection_epochs,
                   texc, returned>>

\* lines 62-63: the run is running, the trainer is constructed
TrainerSetRunning ==
    /\ tpc = "running"
    /\ _run' = [_run EXCEPT !.status = "running"]
    /\ events' = Append(events, Event("set_status_running"))
    /\ tpc' = "constructed"
    /\ UNCHANGED <<otherVars, randomVars, RANK, overrides, _settings, epochs, epoch, best,
                   validator, _train_validator, _metrics_collection_epochs,
                   texc, returned>>

\* the upstream train(): the loop over the epochs starts, with the val
\* validator built
StartTraining ==
    /\ tpc = "constructed"
    /\ epoch' = 0
    /\ validator' = [NoValidator EXCEPT !.built = TRUE]
    /\ tpc' = "epoch"
    /\ UNCHANGED <<otherVars, randomVars, RANK, overrides, _settings, epochs, best,
                   _train_validator, _metrics_collection_epochs, _run, texc,
                   events, returned>>

\* the upstream loop calls validate() at the end of an epoch, on the main
\* rank only
EpochValidate ==
    /\ tpc = "epoch"
    /\ RANK \in MainRanks
    /\ events' = Append(events, Event("validate"))
    /\ tpc' = "validate"
    /\ random_state' = random_state + 1
    /\ upstream_random_state' = upstream_random_state + 1
    /\ UNCHANGED <<otherVars, RANK, overrides, _settings, epochs, epoch, best,
                   validator, _train_validator, _metrics_collection_epochs,
                   _run, texc, returned>>

\* an epoch without validation (args.val off, or another rank)
EpochSkip ==
    /\ tpc = "epoch"
    /\ RANK \notin MainRanks \/ epoch + 1 < epochs
    /\ tpc' = "epoch_end"
    /\ random_state' = random_state + 1
    /\ upstream_random_state' = upstream_random_state + 1
    /\ UNCHANGED <<otherVars, RANK, overrides, _settings, epochs, epoch, best,
                   validator, _train_validator, _metrics_collection_epochs,
                   _run, texc, events, returned>>

\* a validator built at every access
TrainValidatorRebuild(current) ==
    IF RANK \in MainRanks
    THEN LET made == [NoValidator EXCEPT !.built = TRUE, !.id = current.id + 1]
         IN [field |-> made, value |-> made, none |-> FALSE]
    ELSE [field |-> current, value |-> NoValidator, none |-> TRUE]

\* the property train_validator (lines 109-122) of a trainer whose field
\* _train_validator is current: the field after the access and the value
\* returned, a validator built at the first use on the main rank, None on the
\* other ranks
train_validator(current) ==
    IF RANK \in MainRanks
    THEN LET made == IF ~current.built
                     THEN [NoValidator EXCEPT !.built = TRUE,
                                              !.id = current.id + 1]
                     ELSE current
         IN [field |-> made, value |-> made, none |-> FALSE]
    ELSE [field |-> current, value |-> NoValidator, none |-> TRUE]

\* code outside the trainer (a callback of the epoch) reads the property,
\* once in an epoch
AccessTrainValidator ==
    /\ tpc = "epoch"
    /\ \A p \in DOMAIN events :
        events[p].epoch = epoch =>
            events[p].op \notin {"property_built", "property_same", "property_none"}
    /\ LET got == train_validator(_train_validator) IN
        /\ _train_validator' = got.field
        /\ events' = Append(events,
                Event(IF got.none THEN "property_none"
                      ELSE IF got.field.id # _train_validator.id
                      THEN "property_built" ELSE "property_same"))
    /\ UNCHANGED <<otherVars, randomVars, RANK, overrides, _settings, epochs, epoch, best,
                   validator, _metrics_collection_epochs, _run, tpc, texc,
                   returned>>

\* the epoch itself tested, not its 1-based number
TrainPassDueZeroBased(settings, e, collection_epochs) ==
    /\ ~settings.collection_disable
    /\ ~settings.collection_val_only
    /\ e \in collection_epochs

\* lines 127-131: the condition of the pass on the training set
TrainPassDue(settings, e, collection_epochs) ==
    /\ ~settings.collection_disable
    /\ ~settings.collection_val_only
    /\ e + 1 \in collection_epochs

\* the context manager _restore_random_state: the global random state after
\* a with block that was entered in state entered and left in state left
_restore_random_state(entered, left) == entered

\* the pass outside the with block
TrainPassNoRestore(state, draws) == state + draws

\* lines 132-133 and 144-148: the global random state after a pass on the
\* training set that started in state and made draws random calls
TrainPassRandomState(state, draws) ==
    _restore_random_state(state, state + draws)

\* lines 127-133 of validate(): the pass on the training set, if it is due
ValidateTrain ==
    /\ tpc = "validate"
    /\ IF TrainPassDue(_settings, epoch, _metrics_collection_epochs)
       THEN LET got == train_validator(_train_validator) IN
            IF got.none
            THEN /\ tpc' = "raised" /\ texc' = "TypeError"
                 /\ UNCHANGED <<_train_validator, events>>
            ELSE /\ _train_validator' = got.field
                 /\ events' = Append(events, Event("train_pass"))
                 /\ tpc' = "validate_super" /\ UNCHANGED texc
       ELSE /\ tpc' = "validate_super"
            /\ UNCHANGED <<_train_validator, events, texc>>
    /\ IF tpc' = "validate_super"
          /\ TrainPassDue(_settings, epoch, _metrics_collection_epochs)
       THEN \E draws \in 1..2 :
                random_state' = TrainPassRandomState(random_state, draws)
       ELSE UNCHANGED random_state
    /\ UNCHANGED upstream_random_state
    /\ UNCHANGED <<otherVars, RANK, overrides, _settings, epochs, epoch, best,
                   validator, _metrics_collection_epochs, _run, returned>>

\* line 136: the upstream validate() on the val/test set, whose result
\* validate() returns
ValidateSuper ==
    /\ tpc = "validate_super"
    /\ events' = Append(events, Event("val_pass"))
    /\ returned' = [split |-> "val", epoch |-> epoch]
    /\ tpc' = "validated"
    /\ random_state' = random_state + 1
    /\ upstream_random_state' = upstream_random_state + 1
    /\ UNCHANGED <<otherVars, RANK, overrides, _settings, epochs, epoch, best,
                   validator, _train_validator, _metrics_collection_epochs,
                   _run, texc>>

\* the end of an epoch in the upstream loop: the checkpoints are saved (a
\* best one may appear), then the next epoch, or the loop ends (the last
\* epoch, an early stop) and the main rank calls final_eval()
EpochEnd ==
    /\ tpc \in {"validated", "epoch_end"}
    /\ \E saved \in BOOLEAN : best' = (best \/ (saved /\ RANK \in MainRanks))
    /\ \E stop \in BOOLEAN :
        IF stop \/ epoch + 1 >= epochs
        THEN /\ UNCHANGED epoch
             /\ IF RANK \in MainRanks
                THEN /\ tpc' = "final_eval"
                     /\ events' = Append(events, Event("final_eval"))
                ELSE tpc' = "trained" /\ UNCHANGED events
        ELSE /\ epoch' = epoch + 1
             /\ tpc' = "epoch"
             /\ UNCHANGED events
    /\ UNCHANGED <<otherVars, randomVars, RANK, overrides, _settings, epochs, validator,
                   _train_validator, _metrics_collection_epochs, _run, texc,
                   returned>>

\* the test on the best checkpoint left out
FinalTrainDueNoBest(settings, best_exists) ==
    ~settings.collection_val_only /\ ~settings.collection_disable

\* lines 142-143: the condition of the final pass on the training set
FinalTrainDue(settings, best_exists) ==
    /\ ~settings.collection_val_only /\ ~settings.collection_disable
    /\ best_exists

\* lines 142-148 of final_eval(): metrics collection on the training set
FinalTrain ==
    /\ tpc = "final_eval"
    /\ IF FinalTrainDue(_settings, best)
       THEN LET first == train_validator(_train_validator)
                marked == [first.field EXCEPT !._final_validation = TRUE]
                second == train_validator(marked)
                dated == [second.field EXCEPT !._epoch = epoch]
                third == train_validator(dated)
                fourth == train_validator(third.field)
            IN IF first.none
               THEN /\ tpc' = "raised" /\ texc' = "AttributeError"
                    /\ UNCHANGED <<_train_validator, events>>
               ELSE /\ _train_validator' = fourth.field
                    /\ events' = Append(events, Event("final_train_pass"))
                    /\ tpc' = "final_mark" /\ UNCHANGED texc
       ELSE /\ tpc' = "final_mark"
            /\ UNCHANGED <<_train_validator, events, texc>>
    /\ IF tpc' = "final_mark" /\ FinalTrainDue(_settings, best)
       THEN \E draws \in 1..2 :
                random_state' = TrainPassRandomState(random_state, draws)
       ELSE UNCHANGED random_state
    /\ UNCHANGED upstream_random_state
    /\ UNCHANGED <<otherVars, RANK, overrides, _settings, epochs, epoch, best,
                   validator, _metrics_collection_epochs, _run, returned>>

\* line 150: the val validator is marked
FinalMark ==
    /\ tpc = "final_mark"
    /\ validator' = [validator EXCEPT !._final_validation = TRUE]
    /\ events' = Append(events, Event("mark_final"))
    /\ tpc' = "final_super"
    /\ UNCHANGED <<otherVars, randomVars, RANK, overrides, _settings, epochs, epoch, best,
                   _train_validator, _metrics_collection_epochs, _run, texc,
                   returned>>

\* line 151: the upstream final_eval(), which validates the best checkpoint
\* on the val set when there is one
FinalSuper ==
    /\ tpc = "final_super"
    /\ events' = events \o <<Event("upstream_final_eval")>>
                        \o (IF best THEN <<Event("final_val_pass")>> ELSE <<>>)
    /\ tpc' = "final_confidence"
    /\ random_state' = random_state + (IF best THEN 1 ELSE 0)
    /\ upstream_random_state' = upstream_random_state + (IF best THEN 1 ELSE 0)
    /\ UNCHANGED <<otherVars, RANK, overrides, _settings, epochs, epoch, best,
                   validator, _train_validator, _metrics_collection_epochs,
                   _run, texc, returned>>

\* line 152: _save_confidence_metrics, which logs and swallows its failures
FinalConfidence ==
    /\ tpc = "final_confidence"
    /\ events' = Append(events, Event("confidence_metrics"))
    /\ tpc' = "final_rank"
    /\ UNCHANGED <<otherVars, randomVars, RANK, overrides, _settings, epochs, epoch, best,
                   validator, _train_validator, _metrics_collection_epochs,
                   _run, texc, returned>>

\* the status completed set before the embeddings are reduced
FinalReduceAfterCompleted ==
    /\ tpc = "final_rank"
    /\ IF RANK \in MainRanks
       THEN /\ _run' = [_run EXCEPT !.status = "completed"]
            /\ events' = events \o <<Event("set_status_completed")>>
                            \o (IF _settings.image_embeddings_dim > 0
                                THEN <<Event("reduce_embeddings")>> ELSE <<>>)
            /\ tpc' = "trained"
       ELSE tpc' = "trained" /\ UNCHANGED <<events, _run>>
    /\ UNCHANGED <<otherVars, randomVars, RANK, overrides, _settings, epochs, epoch, best,
                   validator, _train_validator, _metrics_collection_epochs,
                   texc, returned>>

\* lines 154-165: on the main rank the embeddings are reduced when
\* image_embeddings_dim > 0; another rank is done
FinalReduce ==
    /\ tpc = "final_rank"
    /\ IF RANK \in MainRanks
       THEN /\ events' = IF _settings.image_embeddings_dim > 0
                         THEN Append(events, Event("reduce_embeddings"))
                         ELSE events
            /\ tpc' = "final_complete"
       ELSE tpc' = "trained" /\ UNCHANGED events
    /\ UNCHANGED <<otherVars, randomVars, RANK, overrides, _settings, epochs, epoch, best,
                   validator, _train_validator, _metrics_collection_epochs,
                   _run, texc, returned>>

\* line 166: the run is completed
FinalComplete ==
    /\ tpc = "final_complete"
    /\ _run' = [_run EXCEPT !.status = "completed"]
    /\ events' = Append(events, Event("set_status_completed"))
    /\ tpc' = "trained"
    /\ UNCHANGED <<otherVars, randomVars, RANK, overrides, _settings, epochs, epoch, best,
                   validator, _train_validator, _metrics_collection_epochs,
                   texc, returned>>

NextTrainer ==
    \/ TrainerSettings
    \/ TrainerAssert
    \/ TrainerSuperInit
    \/ TrainerRun
    \/ TrainerLogParameters
    \/ TrainerSetRunning
    \/ StartTraining
    \/ EpochValidate
    \/ EpochSkip
    \/ AccessTrainValidator
    \/ ValidateTrain
    \/ ValidateSuper
    \/ EpochEnd
    \/ FinalTrain
    \/ FinalMark
    \/ FinalSuper
    \/ FinalConfidence
    \/ FinalReduce
    \/ FinalComplete

SpecTrainer == InitTrainer /\ [][NextTrainer]_vars

\* the operations done so far, the last place of one (0 if it was not
\* done), and the operations from the last marker on
Ops == [p \in DOMAIN events |-> events[p].op]
LastPos(op) ==
    IF \E p \in DOMAIN events : events[p].op = op
    THEN CHOOSE p \in DOMAIN events :
            /\ events[p].op = op
            /\ \A q \in DOMAIN events : events[q].op = op => q <= p
    ELSE 0
CallSince(marker) == SubSeq(events, LastPos(marker), Len(events))
CallOps(marker) == [p \in DOMAIN CallSince(marker) |-> CallSince(marker)[p].op]
Happened(op) == LastPos(op) > 0
\* every b was done after some a
Precedes(a, b) ==
    \A q \in DOMAIN events :
        events[q].op = b => \E p \in 1..(q - 1) : events[p].op = a

\* C11: in every call of validate() the pass on the training set runs if and
\* only if collection is not disabled, not val-only and epoch + 1 is one of
\* the metrics collection epochs; the pass on the val/test set runs in every
\* call, after the training-set pass if there is one, and validate() returns
\* its result.
C11_ValidatePasses ==
    LET due == /\ ~_settings.collection_disable
               /\ ~_settings.collection_val_only
               /\ (epoch + 1) \in _metrics_collection_epochs
    IN /\ tpc = "validate_super" =>
           CallOps("validate") = IF due THEN <<"validate", "train_pass">>
                                 ELSE <<"validate">>
       /\ tpc = "validated" =>
           /\ CallOps("validate") =
                  IF due THEN <<"validate", "train_pass", "val_pass">>
                  ELSE <<"validate", "val_pass">>
           /\ \A p \in DOMAIN CallSince("validate") :
                  CallSince("validate")[p].epoch = epoch
           /\ returned = [split |-> "val", epoch |-> epoch]

C11_Witness ==
    /\ tpc = "validated"
    /\ epoch = 1
    /\ CallOps("validate") = <<"validate", "train_pass", "val_pass">>
    /\ \E p \in DOMAIN events : events[p] = [op |-> "val_pass", epoch |-> 0]
    /\ ~\E p \in DOMAIN events : events[p] = [op |-> "train_pass", epoch |-> 0]
    /\ _train_validator.built

\* final_eval() has gone past its lines 142-148
PastFinalTrain ==
    \/ tpc \in {"final_mark", "final_super", "final_confidence", "final_rank",
                "final_complete"}
    \/ tpc = "trained" /\ RANK \in MainRanks

\* C12: in final_eval() metrics collection on the training set runs if and
\* only if collection is neither val-only nor disabled and the best
\* checkpoint exists, and it runs before the final validation on the val
\* set; the val validator is marked as final validation before the upstream
\* final evaluation in every case.
C12_FinalEvalOrder ==
    PastFinalTrain =>
        LET call == CallOps("final_eval")
            due == /\ ~_settings.collection_val_only
                   /\ ~_settings.collection_disable
                   /\ best
            Place(op) == CHOOSE p \in DOMAIN call : call[p] = op
        IN /\ ("final_train_pass" \in Range(call)) <=> due
           /\ due => call[2] = "final_train_pass"
           /\ "final_val_pass" \in Range(call) /\ due =>
                  Place("final_train_pass") < Place("final_val_pass")
           /\ tpc \notin {"final_mark", "final_super"} =>
                  "upstream_final_eval" \in Range(call)
           /\ "upstream_final_eval" \in Range(call) =>
                  /\ validator._final_validation
                  /\ "mark_final" \in Range(call)
                  /\ Place("mark_final") < Place("upstream_final_eval")

C12_Witness ==
    /\ tpc = "trained" /\ RANK = 0
    /\ CallOps("final_eval") =
          <<"final_eval", "final_train_pass", "mark_final", "upstream_final_eval",
            "final_val_pass", "confidence_metrics", "set_status_completed">>
    /\ _train_validator._final_validation /\ _train_validator._epoch = epoch
    /\ epoch = 1

\* what the run went through
RunOps == {"tlc_init", "set_parameters", "set_status_running",
           "set_status_completed"}

Once(op) == Cardinality({p \in DOMAIN events : events[p].op = op}) = 1

\* C13: on the main rank the run is created and its parameters are logged
\* before its status is set to running, all in the constructor; the status
\* is set to completed only at the end of final_eval(), after the upstream
\* final evaluation, the confidence metrics and, with image_embeddings_dim
\* > 0, the reduction of the embeddings, and never before running. On
\* another rank no run is created and no status is set.
C13_RunLifecycle ==
    /\ RANK \notin MainRanks =>
        /\ _run = NoRun
        /\ \A p \in DOMAIN events : events[p].op \notin RunOps
    /\ RANK \in MainRanks =>
        /\ _run.parameters => _run.created
        /\ _run.status # "" =>
            /\ _run.created /\ _run.parameters
            /\ Once("tlc_init") /\ Once("set_parameters")
            /\ Once("set_status_running")
            /\ Precedes("tlc_init", "set_parameters")
            /\ Precedes("set_parameters", "set_status_running")
        /\ tpc \notin {"new", "assert", "super", "rank", "log", "running", "raised"}
               => _run.status # ""
        /\ Happened("validate") \/ Happened("final_eval") =>
               Precedes("set_status_running", "validate")
               /\ Precedes("set_status_running", "final_eval")
        /\ (_run.status = "completed") = Happened("set_status_completed")
        /\ _run.status = "completed" =>
            /\ tpc = "trained"
            /\ Once("set_status_completed")
            /\ events[Len(events)].op = "set_status_completed"
            /\ LastPos("final_eval") < LastPos("upstream_final_eval")
            /\ LastPos("upstream_final_eval") < LastPos("confidence_metrics")
            /\ LastPos("confidence_metrics") < LastPos("set_status_completed")
            /\ Precedes("set_status_running", "set_status_completed")
            /\ _settings.image_embeddings_dim > 0 =>
                /\ Happened("reduce_embeddings")
                /\ LastPos("confidence_metrics") < LastPos("reduce_embeddings")
        /\ tpc = "trained" => _run.status = "completed"

C13_Witness ==
    /\ tpc = "trained" /\ RANK = 0
    /\ _run = [created |-> TRUE, parameters |-> TRUE, status |-> "completed"]
    /\ _settings.image_embeddings_dim > 0
    /\ LastPos("reduce_embeddings") = Len(events) - 1
    /\ Happened("validate")

\* C14: a trainer whose overrides have neither "data" nor "tables" fails with
\* an AssertionError before the upstream trainer is initialised and before
\* a run is created; with one of the keys the assertion passes.
C14_AssertionFirst ==
    /\ overrides.none \/ ~HasData(overrides.given) =>
        /\ tpc \in {"new", "assert", "raised"}
        /\ tpc = "raised" => texc = "AssertionError"
        /\ ~Happened("upstream_init")
        /\ _run = NoRun
    /\ ~overrides.none /\ HasData(overrides.given) => tpc # "raised"

\* the accesses of the property: by code outside the trainer, by validate()
\* and by final_eval()
PropertyOps == {"property_built", "property_same", "property_none"}
AccessOps == PropertyOps \cup {"train_pass", "final_train_pass"}
Accessed(q) == \E p \in 1..q : events[p].op \in AccessOps

\* C27: the train validator is built lazily and at most once in a trainer: on
\* ranks -1 and 0 it is not built before the first access of the property,
\* the first access builds it, and every later access, from validate(), from
\* final_eval() or from outside, returns that same validator; on another
\* rank the property returns None and nothing is built.
C27_TrainValidatorOnce ==
    /\ _train_validator.id <= 1
    /\ _train_validator.built <=> _train_validator.id = 1
    /\ RANK \in MainRanks =>
        /\ _train_validator.built <=> Accessed(Len(events))
        /\ \A q \in DOMAIN events :
            /\ events[q].op # "property_none"
            /\ events[q].op = "property_built" => ~Accessed(q - 1)
            /\ events[q].op = "property_same" => Accessed(q - 1)
        /\ Happened("final_train_pass") =>
            /\ _train_validator._final_validation
            /\ _train_validator._epoch = epoch
    /\ RANK \notin MainRanks =>
        /\ _train_validator = NoValidator
        /\ \A q \in DOMAIN events : events[q].op \in AccessOps =>
            events[q].op = "property_none"

\* one validator through an access from outside in epoch 0, a pass of
\* validate() and the pass of final_eval()
C27_Witness ==
    /\ tpc = "trained" /\ RANK = 0
    /\ \E p \in DOMAIN events : events[p] = [op |-> "property_built", epoch |-> 0]
    /\ \E p \in DOMAIN events : events[p] = [op |-> "property_same", epoch |-> 1]
    /\ Happened("train_pass") /\ Happened("final_train_pass")
    /\ _train_validator.id = 1 /\ _train_validator._final_validation

\* on rank 1 the property was read and gave None
C27_WitnessOtherRank ==
    /\ RANK = 1 /\ tpc = "trained"
    /\ Happened("property_none")
    /\ _train_validator = NoValidator

CpuCount == 4

Min(a, b) == IF a < b THEN a ELSE b

\* samplers: None, a sampler object of the caller, and the sampler line 36
\* creates, with the shuffle it is given
NoSampler == [kind |-> "None", shuffle |-> FALSE]
CallerSampler == [kind |-> "caller", shuffle |-> FALSE]
DistributedSampler(shuffle) == [kind |-> "DistributedSampler", shuffle |-> shuffle]

\* the shuffle flag as the caller gave it
BuildDataloaderShuffleAsAsked(dataset_len, batch, workers, shuffle, rank, sampler, nd) ==
    LET effective == IF sampler = NoSampler
                     THEN IF rank = 0 - 1 THEN NoSampler
                          ELSE DistributedSampler(shuffle)
                     ELSE sampler
    IN [batch_size |-> Min(batch, dataset_len),
        shuffle |-> shuffle,
        num_workers |-> Min(CpuCount \div (IF nd > 1 THEN nd ELSE 1), workers),
        sampler |-> effective,
        generator |-> RANK]

\* build_dataloader: the arguments InfiniteDataLoader is created with (the
\* generator by the offset of its seed); nd is torch.cuda.device_count()
build_dataloader(dataset_len, batch, workers, shuffle, rank, sampler, nd) ==
    LET effective == IF sampler = NoSampler
                     THEN IF rank = 0 - 1 THEN NoSampler
                          ELSE DistributedSampler(shuffle)
                     ELSE sampler
    IN [batch_size |-> Min(batch, dataset_len),
        shuffle |-> shuffle /\ effective = NoSampler,
        num_workers |-> Min(CpuCount \div (IF nd > 1 THEN nd ELSE 1), workers),
        sampler |-> effective,
        generator |-> RANK]

\* every call: a dataset of up to MaxRows samples, a batch of up to one more,
\* 0 or 2 workers, either shuffle, every rank, no sampler or one of the
\* caller, up to two CUDA devices
InitLoader ==
    /\ NoDataset
    /\ NoTrainer /\ NoPackage
    /\ pc = "build"
    /\ \E dataset_len \in 0..MaxRows : \E batch \in 1..(MaxRows + 1) :
       \E workers \in {0, 2} : \E shuffle \in BOOLEAN : \E rank \in Ranks :
       \E sampler \in {NoSampler, CallerSampler} : \E nd \in 0..2 :
           fn_arg = [dataset_len |-> dataset_len, batch |-> batch,
                     workers |-> workers, shuffle |-> shuffle, rank |-> rank,
                     sampler |-> sampler, nd |-> nd]
    /\ fn_mid = <<>> /\ fn_out = <<>>

ApplyBuildDataloader ==
    /\ pc = "build"
    /\ fn_out' = build_dataloader(fn_arg.dataset_len, fn_arg.batch,
                                  fn_arg.workers, fn_arg.shuffle, fn_arg.rank,
                                  fn_arg.sampler, fn_arg.nd)
    /\ pc' = "built"
    /\ UNCHANGED <<datasetVars, trainerVars, packageVars, fn_arg, fn_mid>>

NextLoader == ApplyBuildDataloader

SpecLoader == InitLoader /\ [][NextLoader]_vars

\* C26: the loader is never given shuffle together with a sampler: its
\* shuffle flag is true only if the caller asked for shuffle and the effective
\* sampler is None; a sampler of the caller is used as it is on every rank;
\* without one the effective sampler is None exactly on rank -1; the batch
\* size is min(batch, len(dataset)), never above the dataset length.
C26_NoShuffleWithSampler ==
    pc = "built" =>
        /\ ~(fn_out.shuffle /\ fn_out.sampler # NoSampler)
        /\ fn_out.shuffle => fn_arg.shuffle /\ fn_out.sampler = NoSampler
        /\ fn_arg.sampler # NoSampler => fn_out.sampler = fn_arg.sampler
        /\ fn_arg.sampler = NoSampler =>
            (fn_out.sampler = NoSampler <=> fn_arg.rank = 0 - 1)
        /\ fn_out.batch_size = Min(fn_arg.batch, fn_arg.dataset_len)
        /\ fn_out.batch_size <= fn_arg.dataset_len

\* shuffle asked on rank 0 without a sampler: the distributed sampler
\* shuffles, the loader does not, and the batch is cut to the dataset
C26_Witness ==
    /\ pc = "built"
    /\ fn_arg.shuffle /\ fn_arg.rank = 0 /\ fn_arg.sampler = NoSampler
    /\ fn_out.sampler = DistributedSampler(TRUE)
    /\ ~fn_out.shuffle
    /\ fn_arg.batch > fn_arg.dataset_len
    /\ fn_out.batch_size = fn_arg.dataset_len
    /\ fn_arg.dataset_len = 2

====
